---- MODULE Spec2Model ----
(***************************************************************************)
(* Model of LLMRouter (02_llm_router/llm_router.py): the failover loop of  *)
(* LLMRouter.query, the health sweep, the result cache and the per-provider *)
(* metrics, as executed by several threads that share one router and its   *)
(* RLock.                                                                  *)
(*                                                                         *)
(* Conventions                                                             *)
(*   - Python None is the string "None".                                   *)
(*   - A string is its sequence of characters; a query text is its         *)
(*     sequence of words (str.split()), the words a single space apart.    *)
(*   - A temperature is counted in tenths: 7 is the float 0.7.             *)
(*   - Money is counted in units of 10^-5 dollar, so that                  *)
(*     (tokens / 1000) * cost_per_1k_tokens() is an integer.               *)
(*   - Query.hash is the md5 digest of "text_temperature_max_tokens"; the  *)
(*     digest is modelled by the digested string, md5 taken as injective.  *)
(*   - datetime.now() is the logical clock `clock`.                        *)
(*   - hist is a history variable: what a call saw when it took the lock   *)
(*     and which providers it has invoked since. The program never reads   *)
(*     it.                                                                 *)
(***************************************************************************)
EXTENDS FiniteSets, Integers, Sequences, TLC

\* ------------------------------------------------------------------ bounds
MaxCalls == 2   \* calls started on the router, all threads together
MaxLen == 3     \* length of a caller-supplied provider list
MaxWords == 2   \* words in a query text
MaxTotal == 2   \* requests_total of a ProviderMetrics built directly

\* routers constructed one after the other on one storage path
MaxRouters == 2

MaxTime == 1    \* readings of the orchestrator's clock
MaxTasks == 2   \* create_task calls that return a task id
MaxErrors == 1  \* report_error calls that are counted

MaxHistory == 1 \* max_history of the ConfidenceGate

\* --------------------------------------------------------------- constants
None == "None"

ProviderOrder == <<"gemini", "claude", "openai">>

ProviderName == {ProviderOrder[i] : i \in 1..Len(ProviderOrder)}

ProviderStatus == {"healthy", "degraded", "unhealthy"}

Threads == {"t1", "t2"}

ErrMsgs == {"API error", "Failed"}

Texts == UNION {[1..n -> {<<"w">>}] : n \in 1..MaxWords}

Temperatures == {7}

MaxTokens == {2000}

SystemPrompts == {None}

Models == {None}

CandidateLists == UNION {[1..n -> ProviderName] : n \in 0..MaxLen}

\* keyword arguments of LLMRouter.query, chosen so that a text holds what
\* the other fields print as: the texts "w", "w_0.7" and "w_0.7 7"
TextsKw ==
    {<<<<"w">>>>, <<<<"w", "_", "0", ".", "7">>>>,
     <<<<"w", "_", "0", ".", "7">>, <<"7">>>>}

TemperaturesKw == {0, 7}

MaxTokensKw == {7, 2000}

SystemPromptsKw == {None, "Be brief."}

ModelsKw == {None, "gpt-4"}

ProviderArgsKw ==
    {[given |-> TRUE, list |-> l] :
        l \in {<<>>, <<"gemini">>, <<"gemini", "claude">>}}

\* the one thread of the single-threaded specification
ThreadsKw == {"t1"}

\* the `providers` argument of LLMRouter.query: None or a list
ProviderArgs ==
    {[given |-> FALSE, list |-> <<>>]}
        \cup {[given |-> TRUE, list |-> l] : l \in CandidateLists}

\* ids that are not keys of self.providers: a str, for which `.value` raises
\* AttributeError, and a member of another Enum, which has a `.value`
UnknownStr == "mistral"

UnknownMember == "Vendor.MISTRAL"

\* the provider arguments of the queries of SpecArgs
ProviderArgsArgs ==
    {[given |-> FALSE, list |-> <<>>]}
        \cup {[given |-> TRUE, list |-> l] :
                 l \in {<<>>, <<"gemini">>, <<"gemini", "claude">>,
                        <<UnknownStr>>, <<UnknownMember>>,
                        <<"gemini", UnknownStr>>,
                        <<"gemini", UnknownMember, "claude">>}}

\* the names of the extra keyword arguments of the queries of SpecArgs
KeywordSets == {{}, {"timeout"}}

\* the provider arguments of the queries of SpecLive
ProviderArgsLive ==
    {[given |-> FALSE, list |-> <<>>],
     [given |-> TRUE, list |-> <<>>],
     [given |-> TRUE, list |-> <<"gemini">>]}

\* the texts of the queries of SpecStore
TextsStore == {<<<<"w">>>>}

\* the provider arguments of the queries of SpecStore
ProviderArgsStore ==
    {[given |-> FALSE, list |-> <<>>],
     [given |-> TRUE, list |-> <<>>],
     [given |-> TRUE, list |-> <<"claude">>]}

\* ------------------------------------------------------------ data classes
NewProviderMetrics(name) ==
    [name |-> name, status |-> "healthy", requests_total |-> 0,
     requests_success |-> 0, requests_failed |-> 0, total_cost |-> 0,
     avg_latency_ms |-> 0, last_error |-> None, last_checked |-> 0]

\* mutant: the rate is computed without the guard for no requests
success_rate_Unguarded(m) == <<m.requests_success, m.requests_total>>

\* a float ratio is kept exact as <<numerator, denominator>>
success_rate(m) ==
    IF m.requests_total = 0 THEN <<1, 1>>
    ELSE <<m.requests_success, m.requests_total>>

\* mutant: a degraded provider is rated like a healthy one
availability_DegradedAsRate(m) ==
    IF m.status = "unhealthy" THEN <<0, 1>>
    ELSE success_rate(m)

availability(m) ==
    IF m.status = "unhealthy" THEN <<0, 1>>
    ELSE IF m.status = "degraded" THEN <<1, 2>>
    ELSE success_rate(m)

NewQuery(text, model, temperature, max_tokens, system_prompt) ==
    [text |-> text, model |-> model, temperature |-> temperature,
     max_tokens |-> max_tokens, system_prompt |-> system_prompt]

NoQuery == NewQuery(<<>>, None, 0, 0, None)

Digit(d) == <<"0", "1", "2", "3", "4", "5", "6", "7", "8", "9">>[d + 1]

\* str(n) of an int n >= 0
RECURSIVE IntStr(_)
IntStr(n) ==
    IF n < 10 THEN <<Digit(n)>> ELSE IntStr(n \div 10) \o <<Digit(n % 10)>>

\* str(x) of a float given in tenths: "0.7", "1.0"
FloatStr(x) == IntStr(x \div 10) \o <<".">> \o <<Digit(x % 10)>>

\* the text as one string
RECURSIVE Join(_)
Join(words) ==
    IF words = <<>> THEN <<>>
    ELSE IF Len(words) = 1 THEN words[1]
    ELSE words[1] \o <<" ">> \o Join(Tail(words))

\* mutant: the system prompt is part of the digested string
hash_WithSystemPrompt(q) ==
    Join(q.text) \o <<"_">> \o FloatStr(q.temperature) \o <<"_">>
        \o IntStr(q.max_tokens) \o <<"_", q.system_prompt>>

\* f"{self.text}_{self.temperature}_{self.max_tokens}", digested
hash(q) ==
    Join(q.text) \o <<"_">> \o FloatStr(q.temperature) \o <<"_">>
        \o IntStr(q.max_tokens)

\* cost_per_1k_tokens in cents: 0.01, 0.03, 0.05 dollar
cost_per_1k_tokens(p) ==
    CASE p = "gemini" -> 1
      [] p = "claude" -> 3
      [] p = "openai" -> 5

\* tokens = len(query.text.split()) * 2 (+ 500 for Claude, + 200 for OpenAI)
BackendTokens(p, q) ==
    CASE p = "gemini" -> Len(q.text) * 2
      [] p = "claude" -> Len(q.text) * 2 + 500
      [] p = "openai" -> Len(q.text) * 2 + 200

BackendLatency(p) ==
    CASE p = "gemini" -> 150
      [] p = "claude" -> 200
      [] p = "openai" -> 250

\* ProviderBackend.query: the Response a backend builds at time ts
BackendQuery(p, q, ts) ==
    [text |-> <<p, q.text>>, provider |-> p,
     tokens_used |-> BackendTokens(p, q),
     cost |-> BackendTokens(p, q) * cost_per_1k_tokens(p),
     latency_ms |-> BackendLatency(p), timestamp |-> ts]

NoResponse ==
    [text |-> <<None, <<>>>>, provider |-> None, tokens_used |-> 0,
     cost |-> 0, latency_ms |-> 0, timestamp |-> 0]

\* ------------------------------------------------------ what a call yields
NoResult == [kind |-> "none"]

Return(v) == [kind |-> "return", value |-> v]

Raise(type, msg) == [kind |-> "raise", type |-> type, msg |-> msg]

\* RuntimeError(f"All providers failed: {e}")
AllProvidersFailed(e) == Raise("RuntimeError", <<"All providers failed: ", e>>)

\* mutant: the empty list raises the error of the exhausted list
NoProvidersAvailable_AsAllFailed == AllProvidersFailed(None)

\* RuntimeError("No providers available")
NoProvidersAvailable == Raise("RuntimeError", <<"No providers available">>)

\* ------------------------------------------------------------------- state
VARIABLES
    pc,         \* pc[t]: where thread t is in the method it runs
    lock,       \* self._lock, a threading.RLock: owner and recursion count
    metrics,    \* self.metrics: ProviderName -> ProviderMetrics
    cache,      \* self.cache: fingerprint -> Response
    clock,      \* datetime.now()
    ncalls,     \* calls started so far
    frame,      \* frame[t]: the locals of the method thread t runs
    hist,       \* hist[t]: history of the call thread t runs
    tally,      \* history of the router: what has happened so far
    storage,    \* the file storage_path / "metrics.json"
    orch,       \* an AgentOrchestrator: its agents, its tasks, its clock
    gate        \* a ConfidenceGate: its rules and its decision history

vars ==
    <<pc, lock, metrics, cache, clock, ncalls, frame, hist, tally, storage,
      orch, gate>>

NoFrame ==
    [query |-> NoQuery, providers |-> <<>>, given |-> FALSE,
     use_cache |-> TRUE, idx |-> 0, response |-> NoResponse, e |-> None,
     tmp |-> 0, metrics_data |-> <<>>, kwargs |-> {},
     health |-> [p \in {} |-> FALSE], arg |-> None, ret |-> NoResult]

NoHist ==
    [pre_metrics |-> [p \in ProviderName |-> NewProviderMetrics(p)],
     pre_cache |-> [k \in {} |-> NoResponse],
     at_call |-> [p \in ProviderName |-> NewProviderMetrics(p)],
     pre_origin |-> [k \in {} |-> NoQuery],
     hit |-> FALSE, trace |-> <<>>]

\* tally counts, per provider, the invocations that returned (ok), the
\* invocations that raised (failed) and the cost of the Responses; it counts
\* the calls that have come back to their caller, and it keeps for every
\* cache key the Query whose Response was stored under it. Across the
\* routers built on the storage path it keeps the metrics the last completed
\* save_metrics wrote (saved), whether one has completed (has_saved), and
\* the number of routers constructed so far (routers). For every cache key
\* it keeps the Response of the latest invocation that returned for a Query
\* with that key since the cache was last emptied (latest).
NoTally ==
    [ok |-> [p \in ProviderName |-> 0],
     failed |-> [p \in ProviderName |-> 0],
     cost |-> [p \in ProviderName |-> 0],
     returned |-> 0,
     origin |-> [k \in {} |-> NoQuery],
     latest |-> [k \in {} |-> NoResponse],
     saved |-> [p \in ProviderName |-> NewProviderMetrics(p)],
     has_saved |-> FALSE,
     routers |-> 1]

\* AgentOrchestrator.__init__: no agents, no tasks. `now` is what
\* datetime.now() reads, `call` the call made last and what it returned,
\* `pre` the agents and tasks before that call, `created` the number of
\* create_task calls that have returned a task id.
NoOrch ==
    [agents |-> [a \in {} |-> 0], tasks |-> [k \in {} |-> 0], now |-> 0,
     errors |-> 0, created |-> 0,
     call |-> [op |-> None, id |-> None, ok |-> FALSE, ret |-> <<>>],
     pre |-> [status |-> [a \in {} |-> 0], task_ids |-> {}]]

\* ConfidenceGate.__init__ on a storage path without history.jsonl
NoGate ==
    [rules |-> [a \in {} |-> 0], history |-> <<>>,
     call |-> [op |-> None, action |-> None, raised |-> None]]

\* no metrics.json: the path exists, is accessible, and holds no such file
NoStorage == [exists |-> FALSE, access |-> TRUE, content |-> <<>>]

\* LLMRouter.__init__ on a storage path that holds no metrics.json
Init ==
    /\ pc = [t \in Threads |-> "idle"]
    /\ lock = [owner |-> None, count |-> 0]
    /\ metrics = [p \in ProviderName |-> NewProviderMetrics(p)]
    /\ cache = [k \in {} |-> NoResponse]
    /\ clock = 1
    /\ ncalls = 0
    /\ frame = [t \in Threads |-> NoFrame]
    /\ hist = [t \in Threads |-> NoHist]
    /\ tally = NoTally
    /\ storage = NoStorage
    /\ orch = NoOrch
    /\ gate = NoGate

\* -------------------------------------------------------------------- lock
\* mutant: the lock excludes nobody
CanAcquire_Always(t) == TRUE

\* RLock.acquire succeeds when the lock is free or already held by t
CanAcquire(t) == lock.owner \in {None, t}

Acquire(t) == [owner |-> t, count |-> lock.count + 1]

\* mutant: leaving the with block does not give up the lock
Release_Never(t) == lock

\* RLock.release at the end of a with block
Release(t) ==
    IF lock.count = 1 THEN [owner |-> None, count |-> 0]
    ELSE [owner |-> lock.owner, count |-> lock.count - 1]

\* ----------------------------------------------------------- LLMRouter.query
\* mutant: the default order starts with the most expensive provider
_get_default_providers_Reversed == <<"openai", "claude", "gemini">>

\* lines 443-450: the default provider order
_get_default_providers == <<"gemini", "claude", "openai">>

\* mutant: the use_cache flag is read the wrong way round
CacheHit_Inverted(uc, q, c) == ~uc /\ hash(q) \in DOMAIN c

\* mutant: the cache is looked up whatever use_cache says
CacheHit_IgnoresFlag(uc, q, c) == hash(q) \in DOMAIN c

\* lines 284-286: use_cache and cache_key in self.cache
CacheHit(uc, q, c) == uc /\ hash(q) \in DOMAIN c

\* mutant: a cache of one entry, the new entry evicts what is there
CachePut_Evicting(c, key, response) == [k \in {key} |-> response]

\* mutant: an entry that is there is kept
CachePut_KeepFirst(c, key, response) ==
    [k \in DOMAIN c \cup {key} |-> IF k \in DOMAIN c THEN c[k] ELSE response]

\* self.cache[key] = response
CachePut(c, key, response) ==
    [k \in DOMAIN c \cup {key} |-> IF k = key THEN response ELSE c[k]]

\* mutant: no failure is taken for the failure of the last provider
IsLastProvider_Never(provider_name, providers) == FALSE

\* line 316: provider_name == providers[-1]
IsLastProvider(provider_name, providers) ==
    provider_name = providers[Len(providers)]

\* mutant: the loop stays on the provider that failed
NextIdx_Stay(i) == i

\* the for loop moves on to the next element of the list
NextIdx(i) == i + 1

\* a thread calls router.query(...): it is about to enter `with self._lock`
QueryCall(t) ==
    /\ pc[t] = "idle"
    /\ ncalls < MaxCalls
    /\ ncalls' = ncalls + 1
    /\ pc' = [pc EXCEPT ![t] = "q_lock"]
    /\ UNCHANGED <<lock, metrics, cache, clock, frame, hist, tally, storage,
                   orch, gate>>

\* lines 280-281: take the lock and build the Query from the arguments,
\* which are drawn from the given sets. The arguments are bound here and not
\* in QueryCall: nothing reads them before the lock is held.
QueryEnterWith(t, texts, args, flags, temps, limits, models, prompts) ==
    /\ pc[t] = "q_lock"
    /\ CanAcquire(t)
    /\ \E text \in texts, arg \in args, uc \in flags,
          temperature \in temps, max_tokens \in limits,
          model \in models, system_prompt \in prompts :
          frame' = [frame EXCEPT ![t] =
                      [NoFrame EXCEPT
                         !.query = NewQuery(text, model, temperature,
                                            max_tokens, system_prompt),
                         !.providers = arg.list,
                         !.given = arg.given,
                         !.use_cache = uc]]
    /\ lock' = Acquire(t)
    /\ hist' = [hist EXCEPT ![t] =
                  [NoHist EXCEPT !.pre_metrics = metrics,
                                 !.pre_cache = cache,
                                 !.pre_origin = tally.origin]]
    /\ pc' = [pc EXCEPT ![t] = "q_cache"]
    /\ UNCHANGED <<metrics, cache, clock, ncalls, tally, storage, orch, gate>>

\* query(text, providers, use_cache) with the Query defaults
QueryEnter(t) ==
    QueryEnterWith(t, Texts, ProviderArgs, BOOLEAN, Temperatures, MaxTokens,
                   Models, SystemPrompts)

\* TypeError of Query.__init__ for a keyword that is no field of Query
UnexpectedKeyword(k) ==
    Raise("TypeError", <<"unexpected keyword argument ", k>>)

\* lines 280-281 for query(text, providers, use_cache, timeout=...): Query
\* has no field `timeout`, so Query(text=text, **kwargs) raises TypeError
\* inside the with block, before the cache is looked at
QueryEnterArgs(t) ==
    /\ pc[t] = "q_lock"
    /\ CanAcquire(t)
    /\ \E text \in TextsStore, arg \in ProviderArgsArgs, uc \in BOOLEAN,
          kw \in KeywordSets :
          IF kw = {}
          THEN /\ frame' = [frame EXCEPT ![t] =
                     [NoFrame EXCEPT
                        !.query = NewQuery(text, None, 7, 2000, None),
                        !.providers = arg.list,
                        !.given = arg.given,
                        !.use_cache = uc]]
               /\ pc' = [pc EXCEPT ![t] = "q_cache"]
          ELSE /\ frame' = [frame EXCEPT ![t] =
                     [NoFrame EXCEPT
                        !.providers = arg.list,
                        !.given = arg.given,
                        !.use_cache = uc,
                        !.kwargs = kw,
                        !.ret = UnexpectedKeyword(CHOOSE k \in kw : TRUE)]]
               /\ pc' = [pc EXCEPT ![t] = "q_exit"]
    /\ lock' = Acquire(t)
    /\ hist' = [hist EXCEPT ![t] =
                  [NoHist EXCEPT !.pre_metrics = metrics,
                                 !.pre_cache = cache,
                                 !.pre_origin = tally.origin]]
    /\ UNCHANGED <<metrics, cache, clock, ncalls, tally, storage, orch, gate>>

\* query(text), query(text, providers) and query(text, providers, use_cache)
QueryEnterLive(t) ==
    QueryEnterWith(t, TextsStore, ProviderArgsLive, BOOLEAN, Temperatures,
                   MaxTokens, Models, SystemPrompts)

\* query(text) and query(text, providers), all else by default
QueryEnterStore(t) ==
    QueryEnterWith(t, TextsStore, ProviderArgsStore, {TRUE}, Temperatures,
                   MaxTokens, Models, SystemPrompts)

\* query(text, providers, use_cache, model=..., temperature=...,
\* max_tokens=..., system_prompt=...)
QueryEnterKw(t) ==
    QueryEnterWith(t, TextsKw, ProviderArgsKw, BOOLEAN, TemperaturesKw,
                   MaxTokensKw, ModelsKw, SystemPromptsKw)

\* mutant: the list is looked at first, and an empty list given by the
\* caller goes to the loop without a cache lookup
QueryCheckCache_ListFirst(t) ==
    /\ pc[t] = "q_cache"
    /\ IF /\ CacheHit(frame[t].use_cache, frame[t].query, cache)
          /\ ~(frame[t].given /\ frame[t].providers = <<>>)
       THEN /\ frame' = [frame EXCEPT
                  ![t].ret = Return(cache[hash(frame[t].query)])]
            /\ hist' = [hist EXCEPT ![t].hit = TRUE]
            /\ pc' = [pc EXCEPT ![t] = "q_exit"]
       ELSE /\ frame' = [frame EXCEPT
                  ![t].providers = IF frame[t].given THEN frame[t].providers
                                   ELSE _get_default_providers,
                  ![t].idx = 1]
            /\ hist' = hist
            /\ pc' = [pc EXCEPT ![t] = "q_for"]
    /\ UNCHANGED <<lock, metrics, cache, clock, ncalls, tally, storage, orch,
                   gate>>

\* lines 283-292: cache lookup, then the provider list
QueryCheckCache(t) ==
    /\ pc[t] = "q_cache"
    /\ IF CacheHit(frame[t].use_cache, frame[t].query, cache)
       THEN /\ frame' = [frame EXCEPT
                  ![t].ret = Return(cache[hash(frame[t].query)])]
            /\ hist' = [hist EXCEPT ![t].hit = TRUE]
            /\ pc' = [pc EXCEPT ![t] = "q_exit"]
       ELSE /\ frame' = [frame EXCEPT
                  ![t].providers = IF frame[t].given THEN frame[t].providers
                                   ELSE _get_default_providers,
                  ![t].idx = 1]
            /\ hist' = hist
            /\ pc' = [pc EXCEPT ![t] = "q_for"]
    /\ UNCHANGED <<lock, metrics, cache, clock, ncalls, tally, storage, orch,
                   gate>>

\* lines 295-298: the next provider of the list is invoked
QueryFor(t) ==
    /\ pc[t] = "q_for"
    /\ frame[t].idx <= Len(frame[t].providers)
    /\ frame[t].providers[frame[t].idx] \in ProviderName
    /\ hist' = [hist EXCEPT ![t].at_call = metrics]
    /\ pc' = [pc EXCEPT ![t] = "q_call"]
    /\ UNCHANGED <<lock, metrics, cache, clock, ncalls, frame, tally, storage,
                   orch, gate>>

\* lines 297 and 311-313: the element of the list is no key of
\* self.providers, so line 297 raises KeyError, which line 311 catches. For a
\* str, `provider_name.value` of line 312 raises AttributeError; for a member
\* of another Enum line 312 logs and self.metrics[provider_name] of line 313
\* raises KeyError. Either error leaves query from inside the handler.
QueryUnknownProvider(t) ==
    /\ pc[t] = "q_for"
    /\ frame[t].idx <= Len(frame[t].providers)
    /\ frame[t].providers[frame[t].idx] \notin ProviderName
    /\ frame' = [frame EXCEPT ![t].ret =
          IF frame[t].providers[frame[t].idx] = UnknownStr
          THEN Raise("AttributeError", <<"value">>)
          ELSE Raise("KeyError", <<frame[t].providers[frame[t].idx]>>)]
    /\ pc' = [pc EXCEPT ![t] = "q_exit"]
    /\ UNCHANGED <<lock, metrics, cache, clock, ncalls, hist, tally, storage,
                   orch, gate>>

\* line 298: provider.query(query) returns a Response
QueryProviderReturns(t) ==
    /\ pc[t] = "q_call"
    /\ LET p == frame[t].providers[frame[t].idx] IN
         /\ frame' = [frame EXCEPT
               ![t].response = BackendQuery(p, frame[t].query, clock)]
         /\ hist' = [hist EXCEPT ![t].trace =
               Append(@, [pos |-> frame[t].idx, provider |-> p,
                          ok |-> TRUE, e |-> None])]
         /\ tally' = [tally EXCEPT
               !.ok[p] = @ + 1,
               !.cost[p] = @ + BackendQuery(p, frame[t].query, clock).cost,
               !.latest =
                   [k \in DOMAIN @ \cup {hash(frame[t].query)} |->
                       IF k = hash(frame[t].query)
                       THEN BackendQuery(p, frame[t].query, clock)
                       ELSE @[k]]]
    /\ clock' = clock + 1
    /\ pc' = [pc EXCEPT ![t] = "q_total"]
    /\ UNCHANGED <<lock, metrics, cache, ncalls, storage, orch, gate>>

\* line 298: provider.query(query) raises
QueryProviderRaises(t) ==
    /\ pc[t] = "q_call"
    /\ \E e \in ErrMsgs :
         /\ frame' = [frame EXCEPT ![t].e = e]
         /\ hist' = [hist EXCEPT ![t].trace =
               Append(@, [pos |-> frame[t].idx,
                          provider |-> frame[t].providers[frame[t].idx],
                          ok |-> FALSE, e |-> e])]
    /\ tally' = [tally EXCEPT
          !.failed[frame[t].providers[frame[t].idx]] = @ + 1]
    /\ pc' = [pc EXCEPT ![t] = "q_failed"]
    /\ UNCHANGED <<lock, metrics, cache, clock, ncalls, storage, orch, gate>>

\* the message of a TimeoutError
TimedOut == "timed out"

\* mutant: the timeout of an invocation leaves query as a TimeoutError
QueryProviderTimesOut_Propagates(t) ==
    /\ pc[t] = "q_call"
    /\ frame' = [frame EXCEPT ![t].e = TimedOut,
                              ![t].ret = Raise("TimeoutError", <<TimedOut>>)]
    /\ hist' = [hist EXCEPT ![t].trace =
          Append(@, [pos |-> frame[t].idx,
                     provider |-> frame[t].providers[frame[t].idx],
                     ok |-> FALSE, e |-> TimedOut])]
    /\ tally' = [tally EXCEPT
          !.failed[frame[t].providers[frame[t].idx]] = @ + 1]
    /\ pc' = [pc EXCEPT ![t] = "q_exit"]
    /\ UNCHANGED <<lock, metrics, cache, clock, ncalls, storage, orch, gate>>

\* line 298: provider.query(query) gives up waiting and raises TimeoutError,
\* an Exception like any other for line 311
QueryProviderTimesOut(t) ==
    /\ pc[t] = "q_call"
    /\ frame' = [frame EXCEPT ![t].e = TimedOut]
    /\ hist' = [hist EXCEPT ![t].trace =
          Append(@, [pos |-> frame[t].idx,
                     provider |-> frame[t].providers[frame[t].idx],
                     ok |-> FALSE, e |-> TimedOut])]
    /\ tally' = [tally EXCEPT
          !.failed[frame[t].providers[frame[t].idx]] = @ + 1]
    /\ pc' = [pc EXCEPT ![t] = "q_failed"]
    /\ UNCHANGED <<lock, metrics, cache, clock, ncalls, storage, orch, gate>>

\* `x += 1` is a read of x followed by a write of x: threads can be
\* switched between the two
\* line 301: requests_total += 1, the read
QueryReadTotal(t) ==
    /\ pc[t] = "q_total"
    /\ frame' = [frame EXCEPT ![t].tmp =
          metrics[frame[t].providers[frame[t].idx]].requests_total]
    /\ pc' = [pc EXCEPT ![t] = "q_total_w"]
    /\ UNCHANGED <<lock, metrics, cache, clock, ncalls, hist, tally, storage,
                   orch, gate>>

\* line 301: requests_total += 1, the write
QueryCountTotal(t) ==
    /\ pc[t] = "q_total_w"
    /\ metrics' = [metrics EXCEPT
          ![frame[t].providers[frame[t].idx]].requests_total =
              frame[t].tmp + 1]
    /\ pc' = [pc EXCEPT ![t] = "q_success"]
    /\ UNCHANGED <<lock, cache, clock, ncalls, frame, hist, tally, storage,
                   orch, gate>>

\* line 302: requests_success += 1, the read
QueryReadSuccess(t) ==
    /\ pc[t] = "q_success"
    /\ frame' = [frame EXCEPT ![t].tmp =
          metrics[frame[t].providers[frame[t].idx]].requests_success]
    /\ pc' = [pc EXCEPT ![t] = "q_success_w"]
    /\ UNCHANGED <<lock, metrics, cache, clock, ncalls, hist, tally, storage,
                   orch, gate>>

\* mutant: the success is counted for the head of the list
QueryCountSuccess_First(t) ==
    /\ pc[t] = "q_success_w"
    /\ metrics' = [metrics EXCEPT
          ![frame[t].providers[1]].requests_success = frame[t].tmp + 1]
    /\ pc' = [pc EXCEPT ![t] = "q_cost"]
    /\ UNCHANGED <<lock, cache, clock, ncalls, frame, hist, tally, storage,
                   orch, gate>>

\* line 302: requests_success += 1, the write
QueryCountSuccess(t) ==
    /\ pc[t] = "q_success_w"
    /\ metrics' = [metrics EXCEPT
          ![frame[t].providers[frame[t].idx]].requests_success =
              frame[t].tmp + 1]
    /\ pc' = [pc EXCEPT ![t] = "q_cost"]
    /\ UNCHANGED <<lock, cache, clock, ncalls, frame, hist, tally, storage,
                   orch, gate>>

\* line 303: total_cost += response.cost, the read
QueryReadCost(t) ==
    /\ pc[t] = "q_cost"
    /\ frame' = [frame EXCEPT ![t].tmp =
          metrics[frame[t].providers[frame[t].idx]].total_cost]
    /\ pc' = [pc EXCEPT ![t] = "q_cost_w"]
    /\ UNCHANGED <<lock, metrics, cache, clock, ncalls, hist, tally, storage,
                   orch, gate>>

\* line 303: total_cost += response.cost, the write
QueryAddCost(t) ==
    /\ pc[t] = "q_cost_w"
    /\ metrics' = [metrics EXCEPT
          ![frame[t].providers[frame[t].idx]].total_cost =
              frame[t].tmp + frame[t].response.cost]
    /\ pc' = [pc EXCEPT ![t] = "q_put"]
    /\ UNCHANGED <<lock, cache, clock, ncalls, frame, hist, tally, storage,
                   orch, gate>>

\* mutant: the response is cached under the text alone
QueryCacheResponse_TextKey(t) ==
    /\ pc[t] = "q_put"
    /\ cache' = CachePut(cache, Join(frame[t].query.text), frame[t].response)
    /\ frame' = [frame EXCEPT ![t].ret = Return(frame[t].response)]
    /\ tally' = [tally EXCEPT !.origin =
          CachePut(@, Join(frame[t].query.text), frame[t].query)]
    /\ pc' = [pc EXCEPT ![t] = "q_exit"]
    /\ UNCHANGED <<lock, metrics, clock, ncalls, hist, storage, orch, gate>>

\* lines 306-309: the response is cached and returned
QueryCacheResponse(t) ==
    /\ pc[t] = "q_put"
    /\ cache' = CachePut(cache, hash(frame[t].query), frame[t].response)
    /\ frame' = [frame EXCEPT ![t].ret = Return(frame[t].response)]
    /\ tally' = [tally EXCEPT !.origin =
          CachePut(@, hash(frame[t].query), frame[t].query)]
    /\ pc' = [pc EXCEPT ![t] = "q_exit"]
    /\ UNCHANGED <<lock, metrics, clock, ncalls, hist, storage, orch, gate>>

\* mutant: the failure is left to be counted later, and never is
QueryReadFailed_Skip(t) ==
    /\ pc[t] = "q_failed"
    /\ pc' = [pc EXCEPT ![t] = "q_error"]
    /\ UNCHANGED <<lock, metrics, cache, clock, ncalls, frame, hist, tally,
                   storage, orch, gate>>

\* line 313: requests_failed += 1, the read
QueryReadFailed(t) ==
    /\ pc[t] = "q_failed"
    /\ frame' = [frame EXCEPT ![t].tmp =
          metrics[frame[t].providers[frame[t].idx]].requests_failed]
    /\ pc' = [pc EXCEPT ![t] = "q_failed_w"]
    /\ UNCHANGED <<lock, metrics, cache, clock, ncalls, hist, tally, storage,
                   orch, gate>>

\* mutant: `= 1` for `+= 1`, earlier failures are forgotten
QueryCountFailed_Overwrite(t) ==
    /\ pc[t] = "q_failed_w"
    /\ metrics' = [metrics EXCEPT
          ![frame[t].providers[frame[t].idx]].requests_failed = 1]
    /\ pc' = [pc EXCEPT ![t] = "q_error"]
    /\ UNCHANGED <<lock, cache, clock, ncalls, frame, hist, tally, storage,
                   orch, gate>>

\* line 313: requests_failed += 1, the write
QueryCountFailed(t) ==
    /\ pc[t] = "q_failed_w"
    /\ metrics' = [metrics EXCEPT
          ![frame[t].providers[frame[t].idx]].requests_failed =
              frame[t].tmp + 1]
    /\ pc' = [pc EXCEPT ![t] = "q_error"]
    /\ UNCHANGED <<lock, cache, clock, ncalls, frame, hist, tally, storage,
                   orch, gate>>

\* mutant: a failed invocation marks the provider unhealthy
QuerySetLastError_Unhealthy(t) ==
    /\ pc[t] = "q_error"
    /\ metrics' = [metrics EXCEPT
          ![frame[t].providers[frame[t].idx]].last_error = frame[t].e,
          ![frame[t].providers[frame[t].idx]].status = "unhealthy"]
    /\ pc' = [pc EXCEPT ![t] = "q_last"]
    /\ UNCHANGED <<lock, cache, clock, ncalls, frame, hist, tally, storage,
                   orch, gate>>

\* line 314: last_error = str(e)
QuerySetLastError(t) ==
    /\ pc[t] = "q_error"
    /\ metrics' = [metrics EXCEPT
          ![frame[t].providers[frame[t].idx]].last_error = frame[t].e]
    /\ pc' = [pc EXCEPT ![t] = "q_last"]
    /\ UNCHANGED <<lock, cache, clock, ncalls, frame, hist, tally, storage,
                   orch, gate>>

\* lines 316-321: raise when this was the last provider, else go on
QueryCheckLast(t) ==
    /\ pc[t] = "q_last"
    /\ IF IsLastProvider(frame[t].providers[frame[t].idx], frame[t].providers)
       THEN /\ frame' = [frame EXCEPT
                  ![t].ret = AllProvidersFailed(frame[t].e)]
            /\ pc' = [pc EXCEPT ![t] = "q_exit"]
       ELSE /\ frame' = [frame EXCEPT ![t].idx = NextIdx(@)]
            /\ pc' = [pc EXCEPT ![t] = "q_for"]
    /\ UNCHANGED <<lock, metrics, cache, clock, ncalls, hist, tally, storage,
                   orch, gate>>

\* the for loop ends: the with block is left and line 323 raises
QueryLoopEnd(t) ==
    /\ pc[t] = "q_for"
    /\ frame[t].idx > Len(frame[t].providers)
    /\ lock' = Release(t)
    /\ frame' = [frame EXCEPT ![t].ret = NoProvidersAvailable]
    /\ pc' = [pc EXCEPT ![t] = "q_raise"]
    /\ UNCHANGED <<metrics, cache, clock, ncalls, hist, tally, storage, orch,
                   gate>>

\* line 323: RuntimeError("No providers available") reaches the caller
QueryRaise(t) ==
    /\ pc[t] = "q_raise"
    /\ frame' = [frame EXCEPT ![t] = NoFrame]
    /\ hist' = [hist EXCEPT ![t] = NoHist]
    /\ tally' = [tally EXCEPT !.returned = @ + 1]
    /\ pc' = [pc EXCEPT ![t] = "idle"]
    /\ UNCHANGED <<lock, metrics, cache, clock, ncalls, storage, orch, gate>>

\* a return or raise inside the with block: the lock is released
QueryExit(t) ==
    /\ pc[t] = "q_exit"
    /\ lock' = Release(t)
    /\ frame' = [frame EXCEPT ![t] = NoFrame]
    /\ hist' = [hist EXCEPT ![t] = NoHist]
    /\ tally' = [tally EXCEPT !.returned = @ + 1]
    /\ pc' = [pc EXCEPT ![t] = "idle"]
    /\ UNCHANGED <<metrics, cache, clock, ncalls, storage, orch, gate>>

\* ------------------------------------------------------ LLMRouter.health_check
\* a thread calls router.health_check()
HealthCall(t) ==
    /\ pc[t] = "idle"
    /\ ncalls < MaxCalls
    /\ ncalls' = ncalls + 1
    /\ pc' = [pc EXCEPT ![t] = "h_lock"]
    /\ UNCHANGED <<lock, metrics, cache, clock, frame, hist, tally, storage,
                   orch, gate>>

\* mutant: the sweep starts without taking the lock
HealthEnter_NoLock(t) ==
    /\ pc[t] = "h_lock"
    /\ frame' = [frame EXCEPT ![t] = [NoFrame EXCEPT !.idx = 1]]
    /\ hist' = [hist EXCEPT ![t] =
                  [NoHist EXCEPT !.pre_metrics = metrics,
                                 !.pre_cache = cache]]
    /\ pc' = [pc EXCEPT ![t] = "h_for"]
    /\ UNCHANGED <<lock, metrics, cache, clock, ncalls, tally, storage, orch,
                   gate>>

\* lines 332-333: take the lock, health = {}
HealthEnter(t) ==
    /\ pc[t] = "h_lock"
    /\ CanAcquire(t)
    /\ lock' = Acquire(t)
    /\ frame' = [frame EXCEPT ![t] = [NoFrame EXCEPT !.idx = 1]]
    /\ hist' = [hist EXCEPT ![t] =
                  [NoHist EXCEPT !.pre_metrics = metrics,
                                 !.pre_cache = cache]]
    /\ pc' = [pc EXCEPT ![t] = "h_for"]
    /\ UNCHANGED <<metrics, cache, clock, ncalls, tally, storage, orch, gate>>

\* lines 335-337: the next provider of self.providers is probed
HealthFor(t) ==
    /\ pc[t] = "h_for"
    /\ frame[t].idx <= Len(ProviderOrder)
    /\ pc' = [pc EXCEPT ![t] = "h_probe"]
    /\ UNCHANGED <<lock, metrics, cache, clock, ncalls, frame, hist, tally,
                   storage, orch, gate>>

\* health[provider_name] = is_healthy
HealthPut(h, p, b) == [q \in DOMAIN h \cup {p} |-> IF q = p THEN b ELSE h[q]]

\* mutant: a probe that returns False degrades the provider
StatusOf_Degraded(is_healthy) ==
    IF is_healthy THEN "healthy" ELSE "degraded"

\* lines 341-344: the status for what the probe returned
StatusOf(is_healthy) == IF is_healthy THEN "healthy" ELSE "unhealthy"

\* lines 337-344: provider.health_check() returns is_healthy
HealthProbeReturns(t) ==
    /\ pc[t] = "h_probe"
    /\ \E is_healthy \in BOOLEAN :
         LET p == ProviderOrder[frame[t].idx] IN
           /\ frame' = [frame EXCEPT
                 ![t].health = HealthPut(@, p, is_healthy),
                 ![t].idx = @ + 1]
           /\ metrics' = [metrics EXCEPT ![p].status = StatusOf(is_healthy)]
           /\ hist' = [hist EXCEPT ![t].trace =
                 Append(@, [pos |-> frame[t].idx, provider |-> p,
                            ok |-> is_healthy, e |-> None])]
    /\ pc' = [pc EXCEPT ![t] = "h_for"]
    /\ UNCHANGED <<lock, cache, clock, ncalls, tally, storage, orch, gate>>

\* mutant: the exception of a probe leaves the sweep
HealthProbeRaises_Abort(t) ==
    /\ pc[t] = "h_probe"
    /\ \E e \in ErrMsgs :
         LET p == ProviderOrder[frame[t].idx] IN
           /\ frame' = [frame EXCEPT ![t].ret = Raise("Exception", e)]
           /\ metrics' = [metrics EXCEPT ![p].status = "unhealthy"]
           /\ hist' = [hist EXCEPT ![t].trace =
                 Append(@, [pos |-> frame[t].idx, provider |-> p,
                            ok |-> FALSE, e |-> e])]
    /\ pc' = [pc EXCEPT ![t] = "h_exit"]
    /\ UNCHANGED <<lock, cache, clock, ncalls, tally, storage, orch, gate>>

\* lines 346-349: provider.health_check() raises
HealthProbeRaises(t) ==
    /\ pc[t] = "h_probe"
    /\ \E e \in ErrMsgs :
         LET p == ProviderOrder[frame[t].idx] IN
           /\ frame' = [frame EXCEPT
                 ![t].health = HealthPut(@, p, FALSE),
                 ![t].idx = @ + 1]
           /\ metrics' = [metrics EXCEPT ![p].status = "unhealthy"]
           /\ hist' = [hist EXCEPT ![t].trace =
                 Append(@, [pos |-> frame[t].idx, provider |-> p,
                            ok |-> FALSE, e |-> e])]   \* e is only logged
    /\ pc' = [pc EXCEPT ![t] = "h_for"]
    /\ UNCHANGED <<lock, cache, clock, ncalls, tally, storage, orch, gate>>

\* line 351: return health
HealthReturn(t) ==
    /\ pc[t] = "h_for"
    /\ frame[t].idx > Len(ProviderOrder)
    /\ frame' = [frame EXCEPT ![t].ret = Return(frame[t].health)]
    /\ pc' = [pc EXCEPT ![t] = "h_exit"]
    /\ UNCHANGED <<lock, metrics, cache, clock, ncalls, hist, tally, storage,
                   orch, gate>>

\* the with block is left: the lock is released
HealthExit(t) ==
    /\ pc[t] = "h_exit"
    /\ lock' = Release(t)
    /\ frame' = [frame EXCEPT ![t] = NoFrame]
    /\ hist' = [hist EXCEPT ![t] = NoHist]
    /\ tally' = [tally EXCEPT !.returned = @ + 1]
    /\ pc' = [pc EXCEPT ![t] = "idle"]
    /\ UNCHANGED <<metrics, cache, clock, ncalls, storage, orch, gate>>

\* ------------------------------------------------------- LLMRouter.clear_cache
\* a thread calls router.clear_cache()
ClearCall(t) ==
    /\ pc[t] = "idle"
    /\ ncalls < MaxCalls
    /\ ncalls' = ncalls + 1
    /\ pc' = [pc EXCEPT ![t] = "c_lock"]
    /\ UNCHANGED <<lock, metrics, cache, clock, frame, hist, tally, storage,
                   orch, gate>>

\* lines 408-409: take the lock, self.cache.clear()
ClearEnter(t) ==
    /\ pc[t] = "c_lock"
    /\ CanAcquire(t)
    /\ lock' = Acquire(t)
    /\ cache' = [k \in {} |-> NoResponse]
    /\ tally' = [tally EXCEPT !.origin = [k \in {} |-> NoQuery],
                              !.latest = [k \in {} |-> NoResponse]]
    /\ hist' = [hist EXCEPT ![t] =
                  [NoHist EXCEPT !.pre_metrics = metrics,
                                 !.pre_cache = cache]]
    /\ pc' = [pc EXCEPT ![t] = "c_exit"]
    /\ UNCHANGED <<metrics, clock, ncalls, frame, storage, orch, gate>>

\* the with block is left: the lock is released
ClearExit(t) ==
    /\ pc[t] = "c_exit"
    /\ lock' = Release(t)
    /\ hist' = [hist EXCEPT ![t] = NoHist]
    /\ tally' = [tally EXCEPT !.returned = @ + 1]
    /\ pc' = [pc EXCEPT ![t] = "idle"]
    /\ UNCHANGED <<metrics, cache, clock, ncalls, frame, storage, orch, gate>>

\* line 414: len(self.cache)
get_cache_size(c) == Cardinality(DOMAIN c)

\* ------------------------------------------ LLMRouter.get_..._provider
\* a < b for two exact ratios
RatioLess(a, b) == a[1] * b[2] < b[1] * a[2]

\* mutant: max for min
get_cheapest_provider_Max ==
    LET best[i \in 1..Len(ProviderOrder)] ==
          IF i = 1 THEN ProviderOrder[1]
          ELSE IF cost_per_1k_tokens(ProviderOrder[i])
                    > cost_per_1k_tokens(best[i - 1])
               THEN ProviderOrder[i] ELSE best[i - 1]
    IN  best[Len(ProviderOrder)]

\* lines 387-392: min(ProviderName, key=cost_per_1k_tokens); min keeps the
\* first of equal keys
get_cheapest_provider ==
    LET best[i \in 1..Len(ProviderOrder)] ==
          IF i = 1 THEN ProviderOrder[1]
          ELSE IF cost_per_1k_tokens(ProviderOrder[i])
                    < cost_per_1k_tokens(best[i - 1])
               THEN ProviderOrder[i] ELSE best[i - 1]
    IN  best[Len(ProviderOrder)]

\* mutant: of equal availabilities the last one wins
get_healthiest_provider_LastOfEqual(m) ==
    LET best[i \in 1..Len(ProviderOrder)] ==
          IF i = 1 THEN ProviderOrder[1]
          ELSE IF ~RatioLess(availability(m[ProviderOrder[i]]),
                             availability(m[best[i - 1]]))
               THEN ProviderOrder[i] ELSE best[i - 1]
    IN  best[Len(ProviderOrder)]

\* lines 394-399: max(ProviderName, key=availability); max keeps the first
\* of equal keys
get_healthiest_provider(m) ==
    LET best[i \in 1..Len(ProviderOrder)] ==
          IF i = 1 THEN ProviderOrder[1]
          ELSE IF RatioLess(availability(m[best[i - 1]]),
                            availability(m[ProviderOrder[i]]))
               THEN ProviderOrder[i] ELSE best[i - 1]
    IN  best[Len(ProviderOrder)]

\* lines 401-404
get_fastest_provider == "gemini"

\* a thread calls router.get_cheapest_provider(); no lock is taken
GetCheapest(t) ==
    /\ pc[t] = "idle"
    /\ ncalls < MaxCalls
    /\ ncalls' = ncalls + 1
    /\ frame' = [frame EXCEPT ![t] =
          [NoFrame EXCEPT !.arg = "cheapest",
                          !.ret = Return(get_cheapest_provider)]]
    /\ hist' = [hist EXCEPT ![t] = [NoHist EXCEPT !.pre_metrics = metrics]]
    /\ pc' = [pc EXCEPT ![t] = "s_exit"]
    /\ UNCHANGED <<lock, metrics, cache, clock, tally, storage, orch, gate>>

\* a thread calls router.get_healthiest_provider(); no lock is taken
GetHealthiest(t) ==
    /\ pc[t] = "idle"
    /\ ncalls < MaxCalls
    /\ ncalls' = ncalls + 1
    /\ frame' = [frame EXCEPT ![t] =
          [NoFrame EXCEPT !.arg = "healthiest",
                          !.ret = Return(get_healthiest_provider(metrics))]]
    /\ hist' = [hist EXCEPT ![t] = [NoHist EXCEPT !.pre_metrics = metrics]]
    /\ pc' = [pc EXCEPT ![t] = "s_exit"]
    /\ UNCHANGED <<lock, metrics, cache, clock, tally, storage, orch, gate>>

\* a thread calls router.get_fastest_provider()
GetFastest(t) ==
    /\ pc[t] = "idle"
    /\ ncalls < MaxCalls
    /\ ncalls' = ncalls + 1
    /\ frame' = [frame EXCEPT ![t] =
          [NoFrame EXCEPT !.arg = "fastest",
                          !.ret = Return(get_fastest_provider)]]
    /\ hist' = [hist EXCEPT ![t] = [NoHist EXCEPT !.pre_metrics = metrics]]
    /\ pc' = [pc EXCEPT ![t] = "s_exit"]
    /\ UNCHANGED <<lock, metrics, cache, clock, tally, storage, orch, gate>>

\* a thread reads self.metrics[p].success_rate
ReadSuccessRate(t) ==
    /\ pc[t] = "idle"
    /\ ncalls < MaxCalls
    /\ ncalls' = ncalls + 1
    /\ \E p \in ProviderName :
         frame' = [frame EXCEPT ![t] =
            [NoFrame EXCEPT
               !.arg = "success_rate",
               !.ret = Return([of |-> p,
                               rate |-> success_rate(metrics[p])])]]
    /\ hist' = [hist EXCEPT ![t] = [NoHist EXCEPT !.pre_metrics = metrics]]
    /\ pc' = [pc EXCEPT ![t] = "s_exit"]
    /\ UNCHANGED <<lock, metrics, cache, clock, tally, storage, orch, gate>>

\* a thread reads self.metrics[p].availability
ReadAvailability(t) ==
    /\ pc[t] = "idle"
    /\ ncalls < MaxCalls
    /\ ncalls' = ncalls + 1
    /\ \E p \in ProviderName :
         frame' = [frame EXCEPT ![t] =
            [NoFrame EXCEPT
               !.arg = "availability",
               !.ret = Return([of |-> p,
                               rate |-> availability(metrics[p])])]]
    /\ hist' = [hist EXCEPT ![t] = [NoHist EXCEPT !.pre_metrics = metrics]]
    /\ pc' = [pc EXCEPT ![t] = "s_exit"]
    /\ UNCHANGED <<lock, metrics, cache, clock, tally, storage, orch, gate>>

\* the provider name reaches the caller
SelectExit(t) ==
    /\ pc[t] = "s_exit"
    /\ frame' = [frame EXCEPT ![t] = NoFrame]
    /\ hist' = [hist EXCEPT ![t] = NoHist]
    /\ tally' = [tally EXCEPT !.returned = @ + 1]
    /\ pc' = [pc EXCEPT ![t] = "idle"]
    /\ UNCHANGED <<lock, metrics, cache, clock, ncalls, storage, orch, gate>>

\* ------------------------------------------------------- LLMRouter.get_metrics
\* lines 366-375: the view of one provider
MetricsOfProvider(m) ==
    [name |-> m.name, status |-> m.status,
     requests_total |-> m.requests_total,
     requests_success |-> m.requests_success,
     requests_failed |-> m.requests_failed,
     success_rate |-> success_rate(m), total_cost |-> m.total_cost,
     availability |-> availability(m)]

\* lines 377-385: the view of all providers
MetricsOfAll(ms) ==
    [p \in ProviderName |->
        [requests_total |-> ms[p].requests_total,
         success_rate |-> success_rate(ms[p]),
         total_cost |-> ms[p].total_cost,
         availability |-> availability(ms[p])]]

\* a thread calls router.get_metrics(provider)
MetricsCall(t) ==
    /\ pc[t] = "idle"
    /\ ncalls < MaxCalls
    /\ ncalls' = ncalls + 1
    /\ pc' = [pc EXCEPT ![t] = "m_lock"]
    /\ UNCHANGED <<lock, metrics, cache, clock, frame, hist, tally, storage,
                   orch, gate>>

\* mutant: the metrics are read without the lock
MetricsEnter_NoLock(t) ==
    /\ pc[t] = "m_lock"
    /\ lock' = Acquire(t)
    /\ \E provider \in ProviderName \cup {None} :
         frame' = [frame EXCEPT ![t] =
            [NoFrame EXCEPT
               !.arg = provider,
               !.ret = IF provider # None
                       THEN Return(MetricsOfProvider(metrics[provider]))
                       ELSE Return(MetricsOfAll(metrics))]]
    /\ hist' = [hist EXCEPT ![t] =
                  [NoHist EXCEPT !.pre_metrics = metrics,
                                 !.pre_cache = cache]]
    /\ pc' = [pc EXCEPT ![t] = "m_exit"]
    /\ UNCHANGED <<metrics, cache, clock, ncalls, tally, storage, orch, gate>>

\* lines 363-385: take the lock and read the metrics
MetricsEnter(t) ==
    /\ pc[t] = "m_lock"
    /\ CanAcquire(t)
    /\ lock' = Acquire(t)
    /\ \E provider \in ProviderName \cup {None} :
         frame' = [frame EXCEPT ![t] =
            [NoFrame EXCEPT
               !.arg = provider,
               !.ret = IF provider # None
                       THEN Return(MetricsOfProvider(metrics[provider]))
                       ELSE Return(MetricsOfAll(metrics))]]
    /\ hist' = [hist EXCEPT ![t] =
                  [NoHist EXCEPT !.pre_metrics = metrics,
                                 !.pre_cache = cache]]
    /\ pc' = [pc EXCEPT ![t] = "m_exit"]
    /\ UNCHANGED <<metrics, cache, clock, ncalls, tally, storage, orch, gate>>

\* the with block is left: the lock is released
MetricsExit(t) ==
    /\ pc[t] = "m_exit"
    /\ lock' = Release(t)
    /\ frame' = [frame EXCEPT ![t] = NoFrame]
    /\ hist' = [hist EXCEPT ![t] = NoHist]
    /\ tally' = [tally EXCEPT !.returned = @ + 1]
    /\ pc' = [pc EXCEPT ![t] = "idle"]
    /\ UNCHANGED <<metrics, cache, clock, ncalls, storage, orch, gate>>

\* ------------------------------------------------------------- persistence
\* metrics.json is kept as the sequence of pieces json.dump writes: the
\* opening brace, one entry per provider, the closing brace. Numbers are in
\* the file as their decimal digits, last_checked as its ISO string.
JsonOpen == [tok |-> "{"]

JsonClose == [tok |-> "}"]

JsonEntry(key, m) ==
    [tok |-> "entry", key |-> key,
     requests_total |-> IntStr(m.requests_total),
     requests_success |-> IntStr(m.requests_success),
     requests_failed |-> IntStr(m.requests_failed),
     total_cost |-> IntStr(m.total_cost),
     last_checked |-> IntStr(m.last_checked)]

\* lines 421-430 and 433: the text json.dump produces for the metrics
JsonDump(m) ==
    <<JsonOpen>>
        \o [i \in 1..Len(ProviderOrder) |->
              JsonEntry(ProviderOrder[i], m[ProviderOrder[i]])]
        \o <<JsonClose>>

DigitValue(c) == CHOOSE d \in 0..9 : Digit(d) = c

\* the number a string of decimal digits stands for
RECURSIVE IntValue(_)
IntValue(str) ==
    IF str = <<>> THEN 0
    ELSE IntValue(SubSeq(str, 1, Len(str) - 1)) * 10
             + DigitValue(str[Len(str)])

\* json.load: the text must be a whole object, or the load raises
JsonLoad(text) ==
    IF /\ Len(text) >= 2
       /\ text[1] = JsonOpen
       /\ text[Len(text)] = JsonClose
       /\ \A i \in 2..(Len(text) - 1) : text[i].tok = "entry"
    THEN [ok |-> TRUE,
          data |-> [k \in {text[i].key : i \in 2..(Len(text) - 1)} |->
                      text[CHOOSE i \in 2..(Len(text) - 1) :
                               text[i].key = k]]]
    ELSE [ok |-> FALSE, data |-> [k \in {} |-> JsonOpen]]

\* lines 461-467: the four counters of every provider named in the data
LoadedFrom(data, m) ==
    [p \in ProviderName |->
        IF p \in DOMAIN data
        THEN [m[p] EXCEPT
                !.requests_total = IntValue(data[p].requests_total),
                !.requests_success = IntValue(data[p].requests_success),
                !.requests_failed = IntValue(data[p].requests_failed),
                !.total_cost = IntValue(data[p].total_cost)]
        ELSE m[p]]

\* mutant: the entries of the file are taken as far as they were written
_load_metrics_Streaming(file, m) ==
    IF ~file.exists \/ ~file.access THEN m
    ELSE LoadedFrom(
             [k \in {file.content[i].key :
                       i \in {j \in 1..Len(file.content) :
                                file.content[j].tok = "entry"}} |->
                 file.content[CHOOSE i \in 1..Len(file.content) :
                                 /\ file.content[i].tok = "entry"
                                 /\ file.content[i].key = k]], m)

\* LLMRouter._load_metrics, lines 452-472: nothing is loaded when the file
\* is missing (line 456) or when opening or parsing it raises (line 471)
_load_metrics(file, m) ==
    IF ~file.exists THEN m
    ELSE IF ~file.access THEN m
    ELSE IF ~JsonLoad(file.content).ok THEN m
    ELSE LoadedFrom(JsonLoad(file.content).data, m)

\* LLMRouter.__init__, lines 227-259, in a new process on the same storage
\* path: the process that ran so far has ended, wherever it stood. The new
\* router starts from fresh metrics, stamped with the time of construction,
\* an empty cache and a free lock, and loads the file.
Construct(t) ==
    /\ tally.routers < MaxRouters
    /\ pc' = [u \in Threads |-> IF u = t THEN "r_exit" ELSE "idle"]
    /\ lock' = [owner |-> None, count |-> 0]
    /\ metrics' = _load_metrics(storage,
           [p \in ProviderName |->
               [NewProviderMetrics(p) EXCEPT !.last_checked = clock]])
    /\ cache' = [k \in {} |-> NoResponse]
    /\ clock' = clock + 1
    /\ ncalls' = 0
    /\ frame' = [u \in Threads |->
                   IF u = t THEN [NoFrame EXCEPT !.arg = "__init__",
                                                 !.ret = Return(None)]
                   ELSE NoFrame]
    /\ hist' = [u \in Threads |-> NoHist]
    /\ tally' = [NoTally EXCEPT !.saved = tally.saved,
                                !.has_saved = tally.has_saved,
                                !.routers = tally.routers + 1]
    /\ UNCHANGED <<storage, orch, gate>>

\* the constructor has returned the router to its caller
ConstructExit(t) ==
    /\ pc[t] = "r_exit"
    /\ pc' = [pc EXCEPT ![t] = "idle"]
    /\ frame' = [frame EXCEPT ![t] = NoFrame]
    /\ UNCHANGED <<lock, metrics, cache, clock, ncalls, hist, tally, storage,
                   orch, gate>>

\* a thread calls router.save_metrics()
SaveCall(t) ==
    /\ pc[t] = "idle"
    /\ ncalls < MaxCalls
    /\ ncalls' = ncalls + 1
    /\ pc' = [pc EXCEPT ![t] = "v_lock"]
    /\ UNCHANGED <<lock, metrics, cache, clock, frame, hist, tally, storage,
                   orch, gate>>

\* lines 420-430: take the lock and build metrics_data
SaveEnter(t) ==
    /\ pc[t] = "v_lock"
    /\ CanAcquire(t)
    /\ lock' = Acquire(t)
    /\ frame' = [frame EXCEPT ![t] =
                   [NoFrame EXCEPT !.arg = "save_metrics",
                                   !.metrics_data = JsonDump(metrics)]]
    /\ hist' = [hist EXCEPT ![t] = [NoHist EXCEPT !.pre_metrics = metrics]]
    /\ pc' = [pc EXCEPT ![t] = "v_open"]
    /\ UNCHANGED <<metrics, cache, clock, ncalls, tally, storage, orch, gate>>

\* line 432: open(metrics_file, 'w') empties the file, or raises, which
\* line 437 catches
SaveOpen(t) ==
    /\ pc[t] = "v_open"
    /\ IF storage.exists /\ ~storage.access
       THEN /\ storage' = storage
            /\ frame' = [frame EXCEPT ![t].e = "PermissionError"]
            /\ pc' = [pc EXCEPT ![t] = "v_exit"]
       ELSE /\ storage' = [exists |-> TRUE, access |-> TRUE,
                           content |-> <<>>]
            /\ frame' = frame
            /\ pc' = [pc EXCEPT ![t] = "v_write"]
    /\ UNCHANGED <<lock, metrics, cache, clock, ncalls, hist, tally, orch,
                   gate>>

\* line 433: json.dump writes the next piece of the text
SaveWrite(t) ==
    /\ pc[t] = "v_write"
    /\ Len(storage.content) < Len(frame[t].metrics_data)
    /\ storage' = [storage EXCEPT !.content =
           Append(@, frame[t].metrics_data[Len(storage.content) + 1])]
    /\ UNCHANGED <<pc, lock, metrics, cache, clock, ncalls, frame, hist,
                   tally, orch, gate>>

\* line 433, end of the with block: the file is written and closed
SaveClose(t) ==
    /\ pc[t] = "v_write"
    /\ Len(storage.content) = Len(frame[t].metrics_data)
    /\ tally' = [tally EXCEPT !.saved = hist[t].pre_metrics,
                              !.has_saved = TRUE]
    /\ pc' = [pc EXCEPT ![t] = "v_exit"]
    /\ UNCHANGED <<lock, metrics, cache, clock, ncalls, frame, hist, storage,
                   orch, gate>>

\* save_metrics leaves the with block and returns None
SaveExit(t) ==
    /\ pc[t] = "v_exit"
    /\ lock' = Release(t)
    /\ frame' = [frame EXCEPT ![t].ret = Return(None)]
    /\ tally' = [tally EXCEPT !.returned = @ + 1]
    /\ pc' = [pc EXCEPT ![t] = "idle"]
    /\ UNCHANGED <<metrics, cache, clock, ncalls, hist, storage, orch, gate>>

\* outside the program: metrics.json is removed
FileRemoved ==
    /\ storage.exists
    /\ storage' = NoStorage
    /\ UNCHANGED <<pc, lock, metrics, cache, clock, ncalls, frame, hist,
                   tally, orch, gate>>

\* outside the program: the permission to open metrics.json is taken away
\* or given back
FileModeChanged ==
    /\ storage.exists
    /\ storage' = [storage EXCEPT !.access = ~@]
    /\ UNCHANGED <<pc, lock, metrics, cache, clock, ncalls, frame, hist,
                   tally, orch, gate>>

\* ------------------------------------------------------- AgentOrchestrator
\* Every method of AgentOrchestrator runs from its first to its last line
\* inside `with self._lock`, so each call is one step. The callbacks that
\* _trigger_callbacks runs are the caller's code; what they raise is caught
\* (lines 517-523) and they are taken not to call the orchestrator. The
\* calls modelled are those that write an agent's status or counters or the
\* set of tasks.
AgentIds == {"agent1", "agent2"}

\* dataclass Agent, lines 47-55 (name and last_heartbeat are never read by
\* the methods modelled here)
NewAgent(agent_id, now) ==
    [agent_id |-> agent_id, status |-> "idle", error_count |-> 0,
     task_count |-> 0]

\* dataclass Task, lines 62-73
NewTask(task_id, agent_id, now) ==
    [task_id |-> task_id, agent_id |-> agent_id, status |-> "idle",
     created_at |-> now]

\* d[key] = value
DictPut(d, key, value) ==
    [k \in DOMAIN d \cup {key} |-> IF k = key THEN value ELSE d[k]]

\* lines 511-515: the digest of f"{timestamp}_{len(self.agents)}"; two ids
\* are the same when the strings digested are the same
_generate_id(now, agents, tasks) ==
    IntStr(now) \o <<"_">> \o IntStr(Cardinality(DOMAIN agents))

\* a call of the orchestrator has run: what it leaves behind
OrchReturns(op, id, agents, tasks, ok, ret) ==
    /\ orch' = [orch EXCEPT
          !.agents = agents,
          !.tasks = tasks,
          !.errors = IF op = "report_error" /\ ok THEN @ + 1 ELSE @,
          !.created = IF op = "create_task" /\ ok THEN @ + 1 ELSE @,
          !.call = [op |-> op, id |-> id, ok |-> ok, ret |-> ret],
          !.pre = [status |-> [a \in DOMAIN orch.agents |->
                                  orch.agents[a].status],
                   task_ids |-> DOMAIN orch.tasks]]
    /\ UNCHANGED <<pc, lock, metrics, cache, clock, ncalls, frame, hist,
                   tally, storage, gate>>

\* time passes between two readings of datetime.now(), or does not
Tick ==
    /\ orch.now < MaxTime
    /\ orch' = [orch EXCEPT !.now = @ + 1]
    /\ UNCHANGED <<pc, lock, metrics, cache, clock, ncalls, frame, hist,
                   tally, storage, gate>>

\* register_agent, lines 130-146
RegisterAgent(id) ==
    OrchReturns("register_agent", id,
                DictPut(orch.agents, id, NewAgent(id, orch.now)),
                orch.tasks, TRUE, <<>>)

\* start_agent, lines 148-171
StartAgent(id) ==
    IF id \in DOMAIN orch.agents /\ orch.agents[id].status = "idle"
    THEN OrchReturns("start_agent", id,
                     [orch.agents EXCEPT ![id].status = "running"],
                     orch.tasks, TRUE, <<>>)
    ELSE OrchReturns("start_agent", id, orch.agents, orch.tasks, FALSE, <<>>)

\* mutant: an agent is paused whatever its status
PauseAgent_Unguarded(id) ==
    IF id \in DOMAIN orch.agents
    THEN OrchReturns("pause_agent", id,
                     [orch.agents EXCEPT ![id].status = "paused"],
                     orch.tasks, TRUE, <<>>)
    ELSE OrchReturns("pause_agent", id, orch.agents, orch.tasks, FALSE, <<>>)

\* pause_agent, lines 173-195
PauseAgent(id) ==
    IF id \in DOMAIN orch.agents /\ orch.agents[id].status = "running"
    THEN OrchReturns("pause_agent", id,
                     [orch.agents EXCEPT ![id].status = "paused"],
                     orch.tasks, TRUE, <<>>)
    ELSE OrchReturns("pause_agent", id, orch.agents, orch.tasks, FALSE, <<>>)

\* resume_agent, lines 197-219
ResumeAgent(id) ==
    IF id \in DOMAIN orch.agents /\ orch.agents[id].status = "paused"
    THEN OrchReturns("resume_agent", id,
                     [orch.agents EXCEPT ![id].status = "running"],
                     orch.tasks, TRUE, <<>>)
    ELSE OrchReturns("resume_agent", id, orch.agents, orch.tasks, FALSE,
                     <<>>)

\* stop_agent, lines 221-240
StopAgent(id) ==
    IF id \in DOMAIN orch.agents
    THEN OrchReturns("stop_agent", id,
                     [orch.agents EXCEPT ![id].status = "completed"],
                     orch.tasks, TRUE, <<>>)
    ELSE OrchReturns("stop_agent", id, orch.agents, orch.tasks, FALSE, <<>>)

\* report_error, lines 242-262
ReportError(id) ==
    IF id \in DOMAIN orch.agents
    THEN /\ orch.errors < MaxErrors
         /\ OrchReturns("report_error", id,
                        [orch.agents EXCEPT ![id].error_count = @ + 1,
                                            ![id].status = "error"],
                        orch.tasks, TRUE, <<>>)
    ELSE OrchReturns("report_error", id, orch.agents, orch.tasks, FALSE,
                     <<>>)

\* create_task, lines 264-294
CreateTask(id) ==
    IF id \in DOMAIN orch.agents
    THEN /\ orch.created < MaxTasks
         /\ LET task_id == _generate_id(orch.now, orch.agents, orch.tasks) IN
              OrchReturns("create_task", id,
                          [orch.agents EXCEPT ![id].task_count = @ + 1],
                          DictPut(orch.tasks, task_id,
                                  NewTask(task_id, id, orch.now)),
                          TRUE, task_id)
    ELSE OrchReturns("create_task", id, orch.agents, orch.tasks, FALSE, <<>>)

\* ---------------------------------------------------------- ConfidenceGate
\* register_action and evaluate_action run wholly inside `with self._lock`,
\* so each call is one step. Confidence values, thresholds, adjustments and
\* risk levels are counted in hundredths (0.8 is 80); the values used are
\* exact in this unit.
ActionConfidence == {"high", "medium", "low", "critical"}

RiskFactor ==
    {"volatility", "error_rate", "losing_streak", "unknown_condition",
     "new_market", "large_amount"}

\* the action names callers register, and one that is never registered
ActionNames == {"trade"}

UnknownAction == "deploy"

\* custom_threshold: not given (None), or a value
NoThreshold == [given |-> FALSE, value |-> 0]

CustomThresholds ==
    {NoThreshold} \cup {[given |-> TRUE, value |-> v] : v \in {0, 50, 90}}

\* risk_adjustments of a rule
RiskAdjustmentSets ==
    {[f \in {} |-> 0], [f \in {"volatility"} |-> 30],
     [f \in {"volatility"} |-> 200]}

\* risk_factors of an evaluation: none, a risk factor at two levels, and a
\* key that names no RiskFactor
RiskFactorSets ==
    {[r \in {} |-> 0], [r \in {"volatility"} |-> 50],
     [r \in {"volatility"} |-> 100], [r \in {"weather"} |-> 100]}

\* ActionRule.get_threshold, lines 90-102
get_threshold(rule) ==
    IF rule.custom_threshold.given
    THEN rule.custom_threshold.value
    ELSE CASE rule.base_confidence = "high" -> 70
           [] rule.base_confidence = "medium" -> 50
           [] rule.base_confidence = "low" -> 30
           [] rule.base_confidence = "critical" -> 0

\* lines 320-328
_confidence_to_value(confidence) ==
    CASE confidence = "high" -> 80
      [] confidence = "medium" -> 50
      [] confidence = "low" -> 20
      [] confidence = "critical" -> 0

\* lines 330-339
_value_to_confidence(value) ==
    IF value >= 70 THEN "high"
    ELSE IF value >= 40 THEN "medium"
    ELSE IF value >= 10 THEN "low"
    ELSE "critical"

\* lines 197-203: the adjustment of every risk_type that names a RiskFactor
AdjustmentsOf(rule, risk_factors) ==
    [risk_type \in DOMAIN risk_factors \cap RiskFactor |->
        ((IF risk_type \in DOMAIN rule.risk_adjustments
          THEN rule.risk_adjustments[risk_type]
          ELSE 0) * risk_factors[risk_type]) \div 100]

\* the sum of the values of a dict
RECURSIVE SumOf(_)
SumOf(d) ==
    IF DOMAIN d = {} THEN 0
    ELSE LET k == CHOOSE x \in DOMAIN d : TRUE
         IN  d[k] + SumOf([x \in DOMAIN d \ {k} |-> d[x]])

\* line 206: max(0.0, min(1.0, confidence_value))
Clamp(value) == IF value < 0 THEN 0 ELSE IF value > 100 THEN 100 ELSE value

\* mutant: the decision without the override for CRITICAL
ShouldExecute_NoOverride(base_conf, confidence_value, threshold) ==
    confidence_value >= threshold \/ base_conf = "high"

\* lines 208-214
ShouldExecute(base_conf, confidence_value, threshold) ==
    IF base_conf = "critical"
    THEN FALSE
    ELSE confidence_value >= threshold \/ base_conf = "high"

\* lines 359-362: the verdict that ends the explanation
_generate_explanation(confidence_value, threshold) ==
    IF confidence_value < threshold
    THEN "Below threshold - PAUSED FOR REVIEW"
    ELSE "Above threshold - AUTO-EXECUTE"

\* lines 190-227: the ConfidenceScore of an evaluation
ScoreOf(action, rule, risk_factors) ==
    LET base_conf == rule.base_confidence
        adjustments == AdjustmentsOf(rule, risk_factors)
        confidence_value ==
            Clamp(_confidence_to_value(base_conf) - SumOf(adjustments))
        threshold == get_threshold(rule)
    IN  [action |-> action,
         base_confidence |-> base_conf,
         adjusted_confidence |-> _value_to_confidence(confidence_value),
         confidence_value |-> confidence_value,
         should_execute |->
             ShouldExecute(base_conf, confidence_value, threshold),
         risk_factors |-> risk_factors,
         explanation |-> _generate_explanation(confidence_value, threshold)]

\* deque.appendleft on a deque(maxlen=max_history), line 231
AppendLeft(history, score) ==
    LET all == <<score>> \o history
    IN  IF Len(all) > MaxHistory THEN SubSeq(all, 1, MaxHistory) ELSE all

\* register_action, lines 141-164
RegisterAction(action, confidence, custom_threshold, risk_adjustments) ==
    /\ gate' = [gate EXCEPT
          !.rules = DictPut(@, action,
                            [action |-> action,
                             base_confidence |-> confidence,
                             custom_threshold |-> custom_threshold,
                             risk_adjustments |-> risk_adjustments]),
          !.call = [op |-> "register_action", action |-> action,
                    raised |-> None]]
    /\ UNCHANGED <<pc, lock, metrics, cache, clock, ncalls, frame, hist,
                   tally, storage, orch>>

\* evaluate_action, lines 166-241
EvaluateAction(action, risk_factors) ==
    /\ IF action \notin DOMAIN gate.rules
       THEN gate' = [gate EXCEPT
               !.call = [op |-> "evaluate_action", action |-> action,
                         raised |-> "ValueError"]]
       ELSE gate' = [gate EXCEPT
               !.history = AppendLeft(@, ScoreOf(action, gate.rules[action],
                                                 risk_factors)),
               !.call = [op |-> "evaluate_action", action |-> action,
                         raised |-> None]]
    /\ UNCHANGED <<pc, lock, metrics, cache, clock, ncalls, frame, hist,
                   tally, storage, orch>>

\* ------------------------------------------------------------ specification
Next ==
    \E t \in Threads :
        \/ QueryCall(t)
        \/ QueryEnter(t)
        \/ QueryCheckCache(t)
        \/ QueryFor(t)
        \/ QueryProviderReturns(t)
        \/ QueryProviderRaises(t)
        \/ QueryReadTotal(t)
        \/ QueryCountTotal(t)
        \/ QueryReadSuccess(t)
        \/ QueryCountSuccess(t)
        \/ QueryReadCost(t)
        \/ QueryAddCost(t)
        \/ QueryCacheResponse(t)
        \/ QueryReadFailed(t)
        \/ QueryCountFailed(t)
        \/ QuerySetLastError(t)
        \/ QueryCheckLast(t)
        \/ QueryLoopEnd(t)
        \/ QueryRaise(t)
        \/ QueryExit(t)
        \/ HealthCall(t)
        \/ HealthEnter(t)
        \/ HealthFor(t)
        \/ HealthProbeReturns(t)
        \/ HealthProbeRaises(t)
        \/ HealthReturn(t)
        \/ HealthExit(t)
        \/ ClearCall(t)
        \/ ClearEnter(t)
        \/ ClearExit(t)
        \/ MetricsCall(t)
        \/ MetricsEnter(t)
        \/ MetricsExit(t)
        \/ GetCheapest(t)
        \/ GetHealthiest(t)
        \/ GetFastest(t)
        \/ SelectExit(t)

Spec == Init /\ [][Next]_vars

\* ProviderMetrics built directly, as the dataclass allows: any status, any
\* requests_success up to any requests_total
InitMetrics ==
    /\ pc = [t \in Threads |-> "idle"]
    /\ lock = [owner |-> None, count |-> 0]
    /\ \E st \in [ProviderName -> ProviderStatus],
          n \in [ProviderName -> 0..MaxTotal],
          k \in [ProviderName -> 0..MaxTotal] :
          /\ \A p \in ProviderName : k[p] <= n[p]
          /\ metrics = [p \in ProviderName |->
                [NewProviderMetrics(p) EXCEPT !.status = st[p],
                                              !.requests_total = n[p],
                                              !.requests_success = k[p]]]
    /\ cache = [k \in {} |-> NoResponse]
    /\ clock = 1
    /\ ncalls = 0
    /\ frame = [t \in Threads |-> NoFrame]
    /\ hist = [t \in Threads |-> NoHist]
    /\ tally = NoTally
    /\ storage = NoStorage
    /\ orch = NoOrch
    /\ gate = NoGate

\* one thread that reads the rates and asks for the healthiest provider
NextMetrics ==
    \E t \in ThreadsKw :
        \/ ReadSuccessRate(t)
        \/ ReadAvailability(t)
        \/ GetHealthiest(t)
        \/ SelectExit(t)

SpecMetrics == InitMetrics /\ [][NextMetrics]_vars

\* one thread that calls query with keyword arguments
NextKw ==
    \E t \in ThreadsKw :
        \/ QueryCall(t)
        \/ QueryEnterKw(t)
        \/ QueryCheckCache(t)
        \/ QueryFor(t)
        \/ QueryProviderReturns(t)
        \/ QueryProviderRaises(t)
        \/ QueryReadTotal(t)
        \/ QueryCountTotal(t)
        \/ QueryReadSuccess(t)
        \/ QueryCountSuccess(t)
        \/ QueryReadCost(t)
        \/ QueryAddCost(t)
        \/ QueryCacheResponse(t)
        \/ QueryReadFailed(t)
        \/ QueryCountFailed(t)
        \/ QuerySetLastError(t)
        \/ QueryCheckLast(t)
        \/ QueryLoopEnd(t)
        \/ QueryRaise(t)
        \/ QueryExit(t)

SpecKw == Init /\ [][NextKw]_vars

\* one thread that routes plain queries and saves the metrics, a file that
\* can be removed or made unreadable, and a process that can end anywhere
\* and be followed by a new router on the same storage path
NextStore ==
    \/ \E t \in ThreadsKw :
        \/ QueryCall(t)
        \/ QueryEnterStore(t)
        \/ QueryCheckCache(t)
        \/ QueryFor(t)
        \/ QueryProviderReturns(t)
        \/ QueryProviderRaises(t)
        \/ QueryReadTotal(t)
        \/ QueryCountTotal(t)
        \/ QueryReadSuccess(t)
        \/ QueryCountSuccess(t)
        \/ QueryReadCost(t)
        \/ QueryAddCost(t)
        \/ QueryCacheResponse(t)
        \/ QueryReadFailed(t)
        \/ QueryCountFailed(t)
        \/ QuerySetLastError(t)
        \/ QueryCheckLast(t)
        \/ QueryLoopEnd(t)
        \/ QueryRaise(t)
        \/ QueryExit(t)
        \/ SaveCall(t)
        \/ SaveEnter(t)
        \/ SaveOpen(t)
        \/ SaveWrite(t)
        \/ SaveClose(t)
        \/ SaveExit(t)
        \/ Construct(t)
        \/ ConstructExit(t)
    \/ FileRemoved
    \/ FileModeChanged

SpecStore == Init /\ [][NextStore]_vars

\* one thread that calls query with a timeout keyword and with lists that
\* name ids outside the configured providers, and backends that may time out
NextArgs ==
    \E t \in ThreadsKw :
        \/ QueryCall(t)
        \/ QueryEnterArgs(t)
        \/ QueryCheckCache(t)
        \/ QueryFor(t)
        \/ QueryUnknownProvider(t)
        \/ QueryProviderReturns(t)
        \/ QueryProviderRaises(t)
        \/ QueryProviderTimesOut(t)
        \/ QueryReadTotal(t)
        \/ QueryCountTotal(t)
        \/ QueryReadSuccess(t)
        \/ QueryCountSuccess(t)
        \/ QueryReadCost(t)
        \/ QueryAddCost(t)
        \/ QueryCacheResponse(t)
        \/ QueryReadFailed(t)
        \/ QueryCountFailed(t)
        \/ QuerySetLastError(t)
        \/ QueryCheckLast(t)
        \/ QueryLoopEnd(t)
        \/ QueryRaise(t)
        \/ QueryExit(t)

SpecArgs == Init /\ [][NextArgs]_vars

\* what thread t can do next in the methods that take the lock
ThreadLive(t) ==
    \/ QueryCall(t)
    \/ QueryEnterLive(t)
    \/ QueryCheckCache(t)
    \/ QueryFor(t)
    \/ QueryProviderReturns(t)
    \/ QueryProviderRaises(t)
    \/ QueryReadTotal(t)
    \/ QueryCountTotal(t)
    \/ QueryReadSuccess(t)
    \/ QueryCountSuccess(t)
    \/ QueryReadCost(t)
    \/ QueryAddCost(t)
    \/ QueryCacheResponse(t)
    \/ QueryReadFailed(t)
    \/ QueryCountFailed(t)
    \/ QuerySetLastError(t)
    \/ QueryCheckLast(t)
    \/ QueryLoopEnd(t)
    \/ QueryRaise(t)
    \/ QueryExit(t)
    \/ HealthCall(t)
    \/ HealthEnter(t)
    \/ HealthFor(t)
    \/ HealthProbeReturns(t)
    \/ HealthProbeRaises(t)
    \/ HealthReturn(t)
    \/ HealthExit(t)
    \/ ClearCall(t)
    \/ ClearEnter(t)
    \/ ClearExit(t)
    \/ MetricsCall(t)
    \/ MetricsEnter(t)
    \/ MetricsExit(t)

NextLive == \E t \in Threads : ThreadLive(t)

\* every thread that can take a step is scheduled in the end, and every
\* provider invocation and every probe comes back
SpecLive ==
    Init /\ [][NextLive]_vars /\ \A t \in Threads : WF_vars(ThreadLive(t))

\* an AgentOrchestrator and its callers
NextOrch ==
    \/ Tick
    \/ \E id \in AgentIds :
        \/ RegisterAgent(id)
        \/ StartAgent(id)
        \/ PauseAgent(id)
        \/ ResumeAgent(id)
        \/ StopAgent(id)
        \/ ReportError(id)
        \/ CreateTask(id)

SpecOrch == Init /\ [][NextOrch]_vars

\* a ConfidenceGate and its callers
NextGate ==
    \/ \E action \in ActionNames :
       \E confidence \in ActionConfidence :
       \E custom_threshold \in CustomThresholds :
       \E risk_adjustments \in RiskAdjustmentSets :
          RegisterAction(action, confidence, custom_threshold,
                         risk_adjustments)
    \/ \E action \in ActionNames \cup {UnknownAction} :
       \E risk_factors \in RiskFactorSets :
          EvaluateAction(action, risk_factors)

SpecGate == Init /\ [][NextGate]_vars

\* the same, with health sweeps and clear_cache
NextStoreHealth ==
    \/ NextStore
    \/ \E t \in ThreadsKw :
        \/ HealthCall(t)
        \/ HealthEnter(t)
        \/ HealthFor(t)
        \/ HealthProbeReturns(t)
        \/ HealthProbeRaises(t)
        \/ HealthReturn(t)
        \/ HealthExit(t)
        \/ ClearCall(t)
        \/ ClearEnter(t)
        \/ ClearExit(t)

SpecStoreHealth == Init /\ [][NextStoreHealth]_vars

TypeOK ==
    /\ ncalls \in 0..MaxCalls
    /\ lock.owner \in Threads \cup {None}
    /\ \A p \in ProviderName : metrics[p].status \in ProviderStatus

\* ------------------------------------------------------ properties: helpers
\* program points of LLMRouter.query at which thread t holds the lock
QueryPoints ==
    {"q_cache", "q_for", "q_call", "q_total", "q_total_w", "q_success",
     "q_success_w", "q_cost", "q_cost_w", "q_put", "q_failed", "q_failed_w",
     "q_error", "q_last", "q_exit"}

\* the same, after the cache lookup
QueryPointsAfterLookup == QueryPoints \ {"q_cache"}

\* how often provider p occurs among the first n elements of list l
Occurrences(l, p, n) == Cardinality({k \in 1..n : l[k] = p})

\* thread t stands right behind the except block of a failed invocation
JustFailed(t) ==
    /\ pc[t] \in {"q_for", "q_exit"}
    /\ hist[t].trace # <<>>
    /\ ~hist[t].trace[Len(hist[t].trace)].ok

\* thread t is about to return the Response of the invocation it just made
JustSucceeded(t) ==
    /\ pc[t] = "q_exit"
    /\ ~hist[t].hit
    /\ frame[t].ret.kind = "return"

\* ------------------------------------------------------------------ claims
\* C1 (as claimed): whenever no call is inside the router, every provider has
\* requests_total = requests_success + requests_failed.
C1_TotalIsSuccessPlusFailed ==
    lock.owner = None =>
        \A p \in ProviderName :
            metrics[p].requests_total =
                metrics[p].requests_success + metrics[p].requests_failed

\* C2 (as claimed): a query that missed the cache has invoked the providers of
\* its list in list order, has gone on to the next one after every failure
\* that was not at the last position, and returns the Response of the first
\* invocation that did not fail.
C2_FailoverInListOrder ==
    \A t \in Threads :
        (pc[t] = "q_exit" /\ ~hist[t].hit) =>
            LET tr == hist[t].trace
                l == frame[t].providers
                n == Len(tr)
            IN  /\ n >= 1
                /\ n <= Len(l)
                /\ \A k \in 1..n : tr[k].pos = k /\ tr[k].provider = l[k]
                /\ \A k \in 1..(n - 1) : ~tr[k].ok
                /\ ~tr[n].ok => n = Len(l)
                /\ tr[n].ok <=> frame[t].ret.kind = "return"
                /\ tr[n].ok =>
                      /\ frame[t].ret = Return(frame[t].response)
                      /\ frame[t].ret.value.provider = l[n]

C4_AllFailedCountsEveryCandidate ==
    \A t \in Threads :
        ( /\ pc[t] = "q_exit"
          /\ ~hist[t].hit
          /\ \A k \in DOMAIN hist[t].trace : ~hist[t].trace[k].ok ) =>
            /\ frame[t].ret \in {AllProvidersFailed(e) : e \in ErrMsgs}
            /\ \A p \in ProviderName :
                  metrics[p].requests_failed =
                      hist[t].pre_metrics[p].requests_failed
                          + Occurrences(frame[t].providers, p,
                                        Len(frame[t].providers))

\* C5 (as claimed): behind a failed invocation the provider has one more
\* request in requests_total, one more in requests_failed, and the error
\* message in last_error.
C5_FailureIsCounted ==
    \A t \in Threads :
        JustFailed(t) =>
            LET last == hist[t].trace[Len(hist[t].trace)]
                now == metrics[last.provider]
                was == hist[t].at_call[last.provider]
            IN  /\ now.requests_total = was.requests_total + 1
                /\ now.requests_failed = was.requests_failed + 1
                /\ now.last_error = last.e

\* C6 (as claimed): behind a successful invocation the provider has one more
\* request in requests_total and in requests_success, the cost of the
\* Response added to total_cost, and no last_error.
C6_SuccessIsCountedAndClearsError ==
    \A t \in Threads :
        JustSucceeded(t) =>
            LET r == frame[t].ret.value
                now == metrics[r.provider]
                was == hist[t].at_call[r.provider]
            IN  /\ now.requests_total = was.requests_total + 1
                /\ now.requests_success = was.requests_success + 1
                /\ now.total_cost = was.total_cost + r.cost
                /\ now.last_error = None

\* C7: when the invocation at position i of the list succeeds, positions
\* 1..i and no others have been invoked, a provider that does not occur at
\* positions 1..i has its metrics unchanged, every element before i has added
\* one to the failure counter of its provider, element i has added one to the
\* success counter of its provider, and the Response is the one of element i.
C7_FirstSuccessEndsTheCall ==
    \A t \in Threads :
        JustSucceeded(t) =>
            LET tr == hist[t].trace
                l == frame[t].providers
                i == frame[t].idx
                was == hist[t].pre_metrics
            IN  /\ Len(tr) = i
                /\ \A k \in 1..i : tr[k].pos = k /\ tr[k].provider = l[k]
                /\ \A k \in 1..i : tr[k].ok <=> k = i
                /\ \A p \in ProviderName \ {l[k] : k \in 1..i} :
                      metrics[p] = was[p]
                /\ \A p \in ProviderName :
                      /\ metrics[p].requests_failed =
                            was[p].requests_failed + Occurrences(l, p, i - 1)
                      /\ metrics[p].requests_success =
                            was[p].requests_success
                                + (IF l[i] = p THEN 1 ELSE 0)
                /\ frame[t].ret.value.provider = l[i]

\* C7 witness: the first query of a router, on the default order, with
\* Gemini failing and Claude succeeding: Claude's Response, one failure of
\* Gemini, one success of Claude, OpenAI never touched.
C7_Witness ==
    \E t \in Threads :
        /\ JustSucceeded(t)
        /\ ~frame[t].given
        /\ frame[t].providers = <<"gemini", "claude", "openai">>
        /\ frame[t].idx = 2
        /\ frame[t].ret.value.provider = "claude"
        /\ metrics["gemini"].requests_failed = 1
        /\ metrics["claude"].requests_success = 1
        /\ metrics["openai"] = NewProviderMetrics("openai")

\* C8: a query with an empty provider list that missed the cache invokes no
\* provider and changes no metric, and what it raises is "No providers
\* available", which is none of the all-providers-failed errors.
C8_EmptyList(t) ==
    /\ pc[t] \in QueryPointsAfterLookup \cup {"q_raise"}
    /\ ~hist[t].hit
    /\ frame[t].providers = <<>>

C8_NoProvidersIsItsOwnError ==
    /\ [](\A t \in Threads :
            C8_EmptyList(t) =>
                /\ pc[t] \in {"q_for", "q_raise"}
                /\ hist[t].trace = <<>>
                /\ pc[t] = "q_for" => metrics = hist[t].pre_metrics
                /\ pc[t] = "q_raise" =>
                      /\ frame[t].ret.kind = "raise"
                      /\ frame[t].ret.msg = <<"No providers available">>
                      /\ frame[t].ret \notin
                            {AllProvidersFailed(e) : e \in ErrMsgs \cup {None}})
    /\ [][\A t \in Threads :
            (C8_EmptyList(t) /\ pc'[t] # pc[t]) => metrics' = metrics]_vars

\* C8 witness: a caller that passed the empty list holds the error.
C8_Witness ==
    \E t \in Threads :
        /\ pc[t] = "q_raise"
        /\ frame[t].given
        /\ frame[t].providers = <<>>
        /\ frame[t].ret = Raise("RuntimeError", <<"No providers available">>)

\* C9 (as claimed): within one query no provider is invoked twice.
C9_NoProviderInvokedTwice ==
    \A t \in Threads :
        pc[t] \in QueryPoints =>
            \A j, k \in DOMAIN hist[t].trace :
                j # k => hist[t].trace[j].provider # hist[t].trace[k].provider

\* C9 (amended): within one query every position of the list is invoked at
\* most once and in list order, so a provider is invoked at most as often as
\* the list names it.
C9_NoPositionInvokedTwice ==
    \A t \in Threads :
        pc[t] \in QueryPoints =>
            LET tr == hist[t].trace
                l == frame[t].providers
            IN  /\ Len(tr) <= Len(l)
                /\ \A k \in DOMAIN tr : tr[k].pos = k /\ tr[k].provider = l[k]
                /\ \A p \in ProviderName :
                      Cardinality({k \in DOMAIN tr : tr[k].provider = p})
                          <= Occurrences(l, p, Len(l))

\* C9 witness: a query has invoked the same provider at two positions.
C9_Witness ==
    \E t \in Threads :
        /\ pc[t] \in QueryPoints
        /\ Len(hist[t].trace) >= 2
        /\ hist[t].trace[1].provider = hist[t].trace[2].provider

Unlocked ==
    {"idle", "q_lock", "h_lock", "c_lock", "m_lock", "q_raise", "s_exit"}

\* the provider thread t is dealing with in its failover loop
Current(t) == frame[t].providers[frame[t].idx]

\* threads whose invocation of p has ended and that stand at one of `points`
Pending(p, points) ==
    Cardinality({t \in Threads : pc[t] \in points /\ Current(t) = p})

\* the cost of the Responses of p that the threads of T hold and have not
\* yet added to total_cost
RECURSIVE PendingCost(_, _)
PendingCost(T, p) ==
    IF T = {} THEN 0
    ELSE LET t == CHOOSE x \in T : TRUE
         IN  (IF /\ pc[t] \in {"q_total", "q_total_w", "q_success",
                                "q_success_w", "q_cost", "q_cost_w"}
                 /\ Current(t) = p
              THEN frame[t].response.cost ELSE 0)
                 + PendingCost(T \ {t}, p)

C12_NoUpdateIsLost ==
    /\ \A p \in ProviderName :
          /\ metrics[p].requests_success
                + Pending(p, {"q_total", "q_total_w", "q_success",
                              "q_success_w"})
                = tally.ok[p]
          /\ metrics[p].requests_failed
                + Pending(p, {"q_failed", "q_failed_w"})
                = tally.failed[p]
          /\ metrics[p].total_cost + PendingCost(Threads, p) = tally.cost[p]
    /\ DOMAIN cache = DOMAIN tally.origin
    /\ \A t \in Threads :
          pc[t] \in {"q_exit", "q_raise", "h_exit", "m_exit", "s_exit"} =>
              frame[t].ret.kind \in {"return", "raise"}
    /\ (\A t \in Threads : pc[t] = "idle") => tally.returned = ncalls
    /\ (~ENABLED Next) => \A t \in Threads : pc[t] = "idle"

\* C12 witness: two calls have come back, a provider has both failed and
\* answered, and the counters say so.
C12_Witness ==
    /\ \A t \in Threads : pc[t] = "idle"
    /\ tally.returned = 2
    /\ \E p \in ProviderName :
          /\ tally.ok[p] = 1
          /\ tally.failed[p] >= 1
          /\ metrics[p].requests_success = 1
          /\ metrics[p].requests_failed = tally.failed[p]

\* C13: what get_metrics returns is the metrics as they stand between whole
\* invocations. While the snapshot is held no other thread is inside the
\* router, the snapshot is the view of the current metrics, and in it
\* requests_total and requests_success both count every invocation that
\* returned, requests_failed every invocation that raised, and total_cost
\* the cost of every Response.
C13_SnapshotIsPointInTime ==
    \A t \in Threads :
        pc[t] = "m_exit" =>
            LET snap == frame[t].ret.value IN
              /\ \A u \in Threads \ {t} : pc[u] \in Unlocked
              /\ IF frame[t].arg # None
                 THEN /\ snap = MetricsOfProvider(metrics[frame[t].arg])
                      /\ snap.requests_total = tally.ok[frame[t].arg]
                      /\ snap.requests_success = tally.ok[frame[t].arg]
                      /\ snap.requests_failed = tally.failed[frame[t].arg]
                      /\ snap.total_cost = tally.cost[frame[t].arg]
                 ELSE /\ snap = MetricsOfAll(metrics)
                      /\ \A p \in ProviderName :
                            /\ snap[p].requests_total = tally.ok[p]
                            /\ snap[p].total_cost = tally.cost[p]

\* C13 witness: a snapshot is held of a provider that answered the query the
\* other thread has run.
C13_Witness ==
    \E t, u \in Threads :
        /\ t # u
        /\ pc[t] = "m_exit"
        /\ pc[u] = "idle"
        /\ frame[t].arg # None
        /\ frame[t].ret.value.requests_success = 1
        /\ frame[t].ret.value.total_cost > 0

\* C14: no step of a query changes the health status of any provider: a
\* status changes only in a step of a health sweep, so that a thread inside
\* a query sees every provider with the status it had when the query began.
C14_QueryKeepsStatus ==
    /\ [](\A t \in Threads :
            pc[t] \in QueryPoints =>
                \A p \in ProviderName :
                    metrics[p].status = hist[t].pre_metrics[p].status)
    /\ [][\A p \in ProviderName :
            metrics'[p].status # metrics[p].status =>
                \E t \in Threads : pc[t] = "h_probe" /\ pc'[t] = "h_for"]_vars

\* C14 witness: a provider that a sweep found unhealthy fails inside a query
\* and a provider that is healthy fails as well; both keep their status.
C14_Witness ==
    \E t \in Threads :
        /\ JustFailed(t)
        /\ \E p \in ProviderName :
              /\ metrics[p].requests_failed >= 1
              /\ metrics[p].status = "healthy"

\* C15 (as claimed): a provider that route has invoked at least once, that
\* has failed every time and that is still healthy has success_rate 0, and
\* its availability is that success_rate.
C15_AllFailedRateIsZero ==
    lock.owner = None =>
        \A p \in ProviderName :
            ( /\ tally.failed[p] >= 1
              /\ tally.ok[p] = 0
              /\ metrics[p].status = "healthy" ) =>
                /\ success_rate(metrics[p])[1] = 0
                /\ availability(metrics[p]) = success_rate(metrics[p])

\* C16: when health_check returns, it returns a dictionary with an entry for
\* each of the router's providers; every provider was probed once, in the
\* order of self.providers; a provider whose probe returned True is reported
\* True and is healthy, one whose probe returned False or raised is reported
\* False and is unhealthy.
C16_SweepReportsEveryProvider ==
    \A t \in Threads :
        pc[t] = "h_exit" =>
            /\ frame[t].ret.kind = "return"
            /\ DOMAIN frame[t].ret.value = ProviderName
            /\ Len(hist[t].trace) = Len(ProviderOrder)
            /\ \A i \in 1..Len(ProviderOrder) :
                  LET p == ProviderOrder[i]
                      probe == hist[t].trace[i] IN
                    /\ probe.provider = p
                    /\ probe.e # None => ~probe.ok
                    /\ frame[t].ret.value[p] = probe.ok
                    /\ metrics[p].status =
                          (IF probe.ok THEN "healthy" ELSE "unhealthy")

\* C16 witness: the probe of the second provider raised, the first answered
\* True and the third answered False, and the sweep has returned.
C16_Witness ==
    \E t \in Threads :
        /\ pc[t] = "h_exit"
        /\ Len(hist[t].trace) = 3
        /\ hist[t].trace[1].ok
        /\ hist[t].trace[2].e # None
        /\ ~hist[t].trace[3].ok
        /\ hist[t].trace[3].e = None
        /\ frame[t].ret.value[ProviderOrder[3]] = FALSE

\* two queries have the same text, temperature and max_tokens
SameFingerprintFields(q1, q2) ==
    /\ q1.text = q2.text
    /\ q1.temperature = q2.temperature
    /\ q1.max_tokens = q2.max_tokens

\* C17: a query with use_cache that comes after the successful query of a
\* text, temperature and max_tokens equal to its own returns the cached
\* Response of that query and stores nothing, whatever the two system
\* prompts and models are; a query that differs in text, temperature or
\* max_tokens from every query that has an entry misses the cache, and the
\* Response it then obtains is stored as one more entry. Entries under
\* different keys are of queries that differ in one of the three fields.
C17_FingerprintIsTextTemperatureMaxTokens ==
    /\ \A t \in ThreadsKw :
          (pc[t] = "q_exit" /\ frame[t].use_cache) =>
              LET same == {k \in DOMAIN hist[t].pre_origin :
                             SameFingerprintFields(hist[t].pre_origin[k],
                                                   frame[t].query)} IN
                IF same # {}
                THEN /\ hist[t].hit
                     /\ \E k \in same :
                           frame[t].ret = Return(hist[t].pre_cache[k])
                     /\ cache = hist[t].pre_cache
                ELSE /\ ~hist[t].hit
                     /\ frame[t].ret.kind = "return" =>
                           /\ DOMAIN hist[t].pre_cache \subseteq DOMAIN cache
                           /\ Cardinality(DOMAIN cache) =
                                 Cardinality(DOMAIN hist[t].pre_cache) + 1
    /\ \A k1, k2 \in DOMAIN tally.origin :
          k1 # k2 => ~SameFingerprintFields(tally.origin[k1],
                                            tally.origin[k2])

\* C17 witness: the text "w_0.7 7" is answered from the cache to a query
\* whose system prompt and model both differ from those of the query that
\* stored the entry.
C17_Witness ==
    \E t \in ThreadsKw :
        /\ pc[t] = "q_exit"
        /\ hist[t].hit
        /\ Len(frame[t].query.text) = 2
        /\ \E k \in DOMAIN hist[t].pre_origin :
              /\ frame[t].ret = Return(hist[t].pre_cache[k])
              /\ SameFingerprintFields(hist[t].pre_origin[k], frame[t].query)
              /\ hist[t].pre_origin[k].system_prompt
                    # frame[t].query.system_prompt
              /\ hist[t].pre_origin[k].model # frame[t].query.model

\* C17 witness of the other half: two entries are in the cache, of queries
\* that differ in max_tokens only.
C17_WitnessDistinct ==
    \E k1, k2 \in DOMAIN cache :
        /\ k1 # k2
        /\ tally.origin[k1].text = tally.origin[k2].text
        /\ tally.origin[k1].temperature = tally.origin[k2].temperature
        /\ tally.origin[k1].max_tokens # tally.origin[k2].max_tokens

\* C18: in every state each entry of the cache, under key k, is the Response
\* that one of the providers built for a query whose hash is k.
C18_EntryIsOfItsKey ==
    \A k \in DOMAIN cache :
        /\ k \in DOMAIN tally.origin
        /\ hash(tally.origin[k]) = k
        /\ \E p \in ProviderName, ts \in 0..clock :
              cache[k] = BackendQuery(p, tally.origin[k], ts)

\* C18 witness: the cache holds two entries, built by different providers.
C18_Witness ==
    \E k1, k2 \in DOMAIN cache :
        /\ k1 # k2
        /\ cache[k1].provider # cache[k2].provider

\* C19: no step other than clear_cache's self.cache.clear() takes a key out
\* of the cache or makes the cache smaller, and when clear_cache is about to
\* return the cache has size 0.
C19_OnlyClearEvicts ==
    /\ [](\A t \in Threads : pc[t] = "c_exit" => get_cache_size(cache) = 0)
    /\ [][(\A t \in Threads : ~(pc[t] = "c_lock" /\ pc'[t] = "c_exit")) =>
            /\ DOMAIN cache \subseteq DOMAIN cache'
            /\ get_cache_size(cache') >= get_cache_size(cache)]_vars

\* C19 witness: clear_cache has emptied a cache that held an entry.
C19_Witness ==
    \E t \in Threads :
        /\ pc[t] = "c_exit"
        /\ get_cache_size(hist[t].pre_cache) > 0
        /\ get_cache_size(cache) = 0

\* C19 witness: a second entry has been stored and the first is still there.
C19_WitnessGrows ==
    \E t \in Threads :
        /\ pc[t] = "q_exit"
        /\ get_cache_size(hist[t].pre_cache) = 1
        /\ get_cache_size(cache) = 2

\* C20: a query with use_cache=False is never answered from the cache: it
\* invokes the first provider of its list, and the Response it returns is
\* the one built by the last invocation it made, which is counted as a
\* success of that provider.
C20_NoCacheMeansInvocation ==
    \A t \in Threads :
        (pc[t] = "q_exit" /\ ~frame[t].use_cache) =>
            LET trace == hist[t].trace IN
              /\ ~hist[t].hit
              /\ frame[t].providers # <<>> =>
                    /\ trace # <<>>
                    /\ trace[1].provider = frame[t].providers[1]
              /\ frame[t].ret.kind = "return" =>
                    /\ trace # <<>>
                    /\ trace[Len(trace)].ok
                    /\ frame[t].ret.value =
                          BackendQuery(trace[Len(trace)].provider,
                                       frame[t].query, clock - 1)
                    /\ metrics[trace[Len(trace)].provider].requests_success
                          > hist[t].pre_metrics[trace[Len(trace)].provider]
                                .requests_success

\* C20 witness: a query with use_cache=False whose hash has an entry in the
\* cache is answered by the first provider of its list, which thereby has
\* answered twice.
C20_Witness ==
    \E t \in Threads :
        /\ pc[t] = "q_exit"
        /\ ~frame[t].use_cache
        /\ hash(frame[t].query) \in DOMAIN hist[t].pre_cache
        /\ frame[t].ret.kind = "return"
        /\ Len(hist[t].trace) = 1
        /\ tally.ok[frame[t].providers[1]] = 2

\* position of provider p in the declaration of ProviderName
Declared(p) == CHOOSE i \in 1..Len(ProviderOrder) : ProviderOrder[i] = p

\* list l names every provider once, by ascending cost_per_1k_tokens, and
\* providers of equal cost in the order of their declaration
ByAscendingCost(l) ==
    /\ Len(l) = Len(ProviderOrder)
    /\ {l[i] : i \in 1..Len(l)} = ProviderName
    /\ \A i, j \in 1..Len(l) :
          i < j =>
              \/ cost_per_1k_tokens(l[i]) < cost_per_1k_tokens(l[j])
              \/ /\ cost_per_1k_tokens(l[i]) = cost_per_1k_tokens(l[j])
                 /\ Declared(l[i]) < Declared(l[j])

\* C21: a query called without `providers` that misses the cache goes through
\* the list of all providers by ascending cost_per_1k_tokens; when its first
\* invocation returns, the Response it returns is that of a provider no
\* other provider is cheaper than.
C21_DefaultOrderIsByCost ==
    \A t \in Threads :
        (pc[t] \in QueryPointsAfterLookup /\ ~frame[t].given
           /\ ~hist[t].hit) =>
            /\ ByAscendingCost(frame[t].providers)
            /\ (pc[t] = "q_exit" /\ hist[t].trace[1].ok) =>
                  /\ frame[t].ret.kind = "return"
                  /\ frame[t].ret.value.provider = frame[t].providers[1]
                  /\ \A p \in ProviderName :
                        cost_per_1k_tokens(frame[t].ret.value.provider)
                            <= cost_per_1k_tokens(p)

\* C21 witness: a query without `providers` is about to return the Response
\* of its first invocation.
C21_Witness ==
    \E t \in Threads :
        /\ pc[t] = "q_exit"
        /\ ~frame[t].given
        /\ ~hist[t].hit
        /\ Len(hist[t].trace) = 1
        /\ frame[t].ret.kind = "return"

\* how many of the invocations in trace were of provider p and ended ok
Invocations(trace, p, ok) ==
    Cardinality({i \in 1..Len(trace) :
                    trace[i].provider = p /\ trace[i].ok = ok})

\* C26: when query is about to return or raise, still holding the lock, every
\* provider's requests_success and requests_failed have grown, since the call
\* took the lock, by exactly the invocations of this call that returned and
\* that raised, and total_cost by the cost of the Response that is returned.
C26_UpdatesAppliedBeforeReturn ==
    \A t \in Threads :
        (pc[t] = "q_exit" /\ ~hist[t].hit) =>
            \A p \in ProviderName :
                LET pre == hist[t].pre_metrics[p]
                    trace == hist[t].trace IN
                  /\ metrics[p].requests_success =
                        pre.requests_success + Invocations(trace, p, TRUE)
                  /\ metrics[p].requests_failed =
                        pre.requests_failed + Invocations(trace, p, FALSE)
                  /\ metrics[p].total_cost =
                        pre.total_cost +
                          (IF /\ frame[t].ret.kind = "return"
                              /\ frame[t].ret.value.provider = p
                           THEN frame[t].ret.value.cost ELSE 0)

\* C26 witness: the call raises after three invocations that failed, two of
\* them of the same provider.
C26_Witness ==
    \E t \in Threads :
        /\ pc[t] = "q_exit"
        /\ frame[t].ret.kind = "raise"
        /\ Len(hist[t].trace) = 3
        /\ \E p \in ProviderName : Invocations(hist[t].trace, p, FALSE) = 2

\* a is the exact ratio 0
RatioIsZero(a) == a[1] = 0

\* C22: get_healthiest_provider returns a provider whose availability no
\* provider exceeds, and no provider declared before it equals; in every
\* state an unhealthy provider has availability 0, and it is returned only
\* when the availability of every provider is 0.
C22_HealthiestIsFirstMaximum ==
    /\ \A p \in ProviderName :
          metrics[p].status = "unhealthy" =>
              availability(metrics[p]) = <<0, 1>>
    /\ \A t \in Threads :
          (pc[t] = "s_exit" /\ frame[t].arg = "healthiest") =>
              LET m == hist[t].pre_metrics
                  r == frame[t].ret.value IN
                /\ r \in ProviderName
                /\ \A p \in ProviderName :
                      /\ ~RatioLess(availability(m[r]), availability(m[p]))
                      /\ Declared(p) < Declared(r) =>
                            RatioLess(availability(m[p]), availability(m[r]))
                /\ m[r].status = "unhealthy" =>
                      \A p \in ProviderName : RatioIsZero(availability(m[p]))

\* C22 witness: the first provider is unhealthy, the other two are healthy
\* and equally available, and the second is returned.
C22_Witness ==
    \E t \in Threads :
        /\ pc[t] = "s_exit"
        /\ frame[t].arg = "healthiest"
        /\ hist[t].pre_metrics[ProviderOrder[1]].status = "unhealthy"
        /\ hist[t].pre_metrics[ProviderOrder[2]].status = "healthy"
        /\ hist[t].pre_metrics[ProviderOrder[3]].status = "healthy"
        /\ frame[t].ret.value = ProviderOrder[2]

\* C22 witness: every provider is unhealthy and the first one is returned.
C22_WitnessAllUnhealthy ==
    \E t \in Threads :
        /\ pc[t] = "s_exit"
        /\ frame[t].arg = "healthiest"
        /\ \A p \in ProviderName :
              hist[t].pre_metrics[p].status = "unhealthy"
        /\ frame[t].ret.value = ProviderOrder[1]

\* C23: in every state get_cheapest_provider yields the provider of the
\* lowest cost_per_1k_tokens, the first declared of them, and every call of
\* it returns that provider, whatever the metrics, the statuses and the
\* cache are.
C23_CheapestIsStatic ==
    /\ \A p \in ProviderName :
          /\ cost_per_1k_tokens(get_cheapest_provider)
                <= cost_per_1k_tokens(p)
          /\ Declared(p) < Declared(get_cheapest_provider) =>
                cost_per_1k_tokens(get_cheapest_provider)
                    < cost_per_1k_tokens(p)
    /\ \A t \in Threads :
          (pc[t] = "s_exit" /\ frame[t].arg = "cheapest") =>
              /\ frame[t].ret = Return("gemini")
              /\ \A p \in ProviderName :
                    cost_per_1k_tokens(frame[t].ret.value)
                        <= cost_per_1k_tokens(p)

\* C23 witness: get_cheapest_provider is called when the cheapest provider
\* has failed, costs have accrued to another one and the cache has an entry.
C23_Witness ==
    \E t \in Threads :
        /\ pc[t] = "s_exit"
        /\ frame[t].arg = "cheapest"
        /\ metrics["gemini"].requests_failed > 0
        /\ \E p \in ProviderName \ {"gemini"} : metrics[p].total_cost > 0
        /\ cache # <<>>

\* two exact ratios are the same number
RatioEq(a, b) == a[1] * b[2] = b[1] * a[2]

\* C24: success_rate is 1.0 when requests_total is 0 and else
\* requests_success / requests_total; availability is 0.0 for an unhealthy
\* provider, 0.5 for a degraded one and success_rate for a healthy one.
C24_AvailabilityByStatus ==
    \A t \in ThreadsKw :
        pc[t] = "s_exit" =>
            LET m == hist[t].pre_metrics[frame[t].ret.value.of]
                rate == frame[t].ret.value.rate
                successes_by_attempts ==
                    IF m.requests_total = 0 THEN <<1, 1>>
                    ELSE <<m.requests_success, m.requests_total>> IN
              /\ frame[t].arg = "success_rate" =>
                    /\ rate[2] > 0
                    /\ RatioEq(rate, successes_by_attempts)
              /\ frame[t].arg = "availability" =>
                    /\ rate[2] > 0
                    /\ m.status = "unhealthy" => RatioEq(rate, <<0, 1>>)
                    /\ m.status = "degraded" => RatioEq(rate, <<1, 2>>)
                    /\ m.status = "healthy" =>
                          RatioEq(rate, successes_by_attempts)

\* C24 witness: the availability of a degraded provider with two successes
\* in two attempts is read, and is 0.5.
C24_Witness ==
    \E t \in ThreadsKw :
        /\ pc[t] = "s_exit"
        /\ frame[t].arg = "availability"
        /\ LET m == hist[t].pre_metrics[frame[t].ret.value.of] IN
             /\ m.status = "degraded"
             /\ m.requests_total = 2
             /\ m.requests_success = 2
        /\ frame[t].ret.value.rate = <<1, 2>>

\* a step of the model is the construction of a new router
Constructs == tally'.routers = tally.routers + 1

\* metrics.json holds less than the whole text json.dump writes
PartiallyWritten(file) ==
    file.exists /\ Len(file.content) < Len(ProviderOrder) + 2

\* the metrics of a backend are the defaults of a new ProviderMetrics
IsDefault(m) ==
    /\ m.requests_total = 0
    /\ m.requests_success = 0
    /\ m.requests_failed = 0
    /\ m.total_cost = 0
    /\ m.status = "healthy"
    /\ m.last_error = None
    /\ m.avg_latency_ms = 0

C28_WitnessUnreadable ==
    \E t \in ThreadsKw :
        /\ pc[t] = "r_exit"
        /\ storage.exists
        /\ ~storage.access
        /\ storage.content = JsonDump(tally.saved)
        /\ \E p \in ProviderName : tally.saved[p].requests_total > 0
        /\ \A p \in ProviderName : IsDefault(metrics[p])

\* metrics.json is readable and holds what the last completed save wrote
HoldsLastSave(file) ==
    /\ tally.has_saved
    /\ file.exists
    /\ file.access
    /\ file.content = JsonDump(tally.saved)

\* C29: a router constructed on the file a completed save_metrics wrote has,
\* for every backend, the requests_total, requests_success, requests_failed,
\* total_cost and last_checked the saving router had.
C29_SaveLoadRoundTrip ==
    [][(Constructs /\ HoldsLastSave(storage)) =>
          \A p \in ProviderName :
              /\ metrics'[p].requests_total = tally.saved[p].requests_total
              /\ metrics'[p].requests_success
                     = tally.saved[p].requests_success
              /\ metrics'[p].requests_failed = tally.saved[p].requests_failed
              /\ metrics'[p].total_cost = tally.saved[p].total_cost
              /\ metrics'[p].last_checked = tally.saved[p].last_checked]_vars

\* C29, without last_checked: the four counters do make the round trip.
C29_CountersRoundTrip ==
    [][(Constructs /\ HoldsLastSave(storage)) =>
          \A p \in ProviderName :
              /\ metrics'[p].requests_total = tally.saved[p].requests_total
              /\ metrics'[p].requests_success
                     = tally.saved[p].requests_success
              /\ metrics'[p].requests_failed = tally.saved[p].requests_failed
              /\ metrics'[p].total_cost = tally.saved[p].total_cost]_vars

\* a router has just been constructed on the file of a save that followed a
\* successful and a failed invocation
C29_Loaded ==
    \E t \in ThreadsKw :
        /\ pc[t] = "r_exit"
        /\ HoldsLastSave(storage)
        /\ \E p \in ProviderName : metrics[p].requests_success > 0
        /\ \E p \in ProviderName : metrics[p].requests_failed > 0
        /\ \E p \in ProviderName : metrics[p].total_cost > 0

\* an exact ratio is a number of [0.0, 1.0]
InUnitInterval(r) == r[2] > 0 /\ 0 <= r[1] /\ r[1] <= r[2]

\* C25: in every state, also after metrics.json was loaded, the success_rate
\* and the availability of every backend are in [0.0, 1.0].
C25_RatesInUnitInterval ==
    \A p \in ProviderName :
        /\ InUnitInterval(success_rate(metrics[p]))
        /\ InUnitInterval(availability(metrics[p]))

\* C25 witness: a router that has routed nothing itself holds counters it
\* loaded from metrics.json.
C25_Witness ==
    /\ tally.routers > 1
    /\ ncalls = 0
    /\ \E p \in ProviderName : metrics[p].requests_total > 0
    /\ \E p \in ProviderName : metrics[p].requests_failed > 0

\* C25 witness: a router that loaded its counters has since found unhealthy
\* a backend with counted requests, whose availability is 0.0 now.
C25_WitnessAfterSweep ==
    /\ tally.routers > 1
    /\ \E p \in ProviderName :
          /\ metrics[p].requests_total > 0
          /\ metrics[p].status = "unhealthy"
          /\ availability(metrics[p]) = <<0, 1>>

\* every element of the list is a configured provider
AllKnown(providers) ==
    \A i \in 1..Len(providers) : providers[i] \in ProviderName

\* C27 (as claimed): a call of query that is given a timeout is routed like
\* any call, the timeout bounding its invocations: it ends with a Response or
\* with one of the errors of routing, a RuntimeError.
C27_TimeoutBoundsInvocations ==
    \A t \in ThreadsKw :
        (/\ pc[t] = "q_exit"
         /\ "timeout" \in frame[t].kwargs
         /\ AllKnown(frame[t].providers)) =>
            \/ frame[t].ret.kind = "return"
            \/ frame[t].ret.type = "RuntimeError"

\* C27 (amended): query takes no timeout. A call with a `timeout` keyword
\* ends in a TypeError before the cache is read or a provider invoked, and
\* changes no metrics. An invocation that itself raises a timeout error is
\* dealt with as every failed invocation is: requests_failed of the provider
\* is incremented and last_error set, and query goes on to the next element
\* of the list or raises; what it raises is never a TimeoutError.
C27_NoTimeoutParameterTimeoutsAreFailures ==
    \A t \in ThreadsKw :
        pc[t] = "q_exit" =>
            LET trace == hist[t].trace
                pre == hist[t].pre_metrics
                ret == frame[t].ret IN
              /\ "timeout" \in frame[t].kwargs =>
                    /\ ret = UnexpectedKeyword("timeout")
                    /\ trace = <<>>
                    /\ metrics = pre
                    /\ cache = hist[t].pre_cache
              /\ \A i \in 1..Len(trace) :
                    trace[i].e = TimedOut =>
                        LET p == trace[i].provider IN
                          /\ ~trace[i].ok
                          /\ metrics[p].requests_failed =
                                 pre[p].requests_failed
                                     + Invocations(trace, p, FALSE)
                          /\ (\A j \in (i + 1)..Len(trace) :
                                  trace[j].provider # p \/ trace[j].ok) =>
                                 metrics[p].last_error = TimedOut
                          /\ IF i < Len(trace)
                             THEN trace[i + 1].pos = trace[i].pos + 1
                             ELSE /\ ret.kind = "raise"
                                  /\ ret.type # "TimeoutError"
                                  /\ \/ ret = AllProvidersFailed(TimedOut)
                                     \/ /\ trace[i].pos
                                             < Len(frame[t].providers)
                                        /\ frame[t].providers[
                                               trace[i].pos + 1]
                                             \notin ProviderName

\* C27 witness: Gemini timed out in an earlier call, which Claude answered
\* and whose Response is cached; a call with a timeout keyword has now been
\* turned down with TypeError.
C27_Witness ==
    \E t \in ThreadsKw :
        /\ pc[t] = "q_exit"
        /\ "timeout" \in frame[t].kwargs
        /\ frame[t].ret.kind = "raise"
        /\ frame[t].ret.type = "TypeError"
        /\ metrics["gemini"].last_error = TimedOut
        /\ metrics["gemini"].requests_failed = 1
        /\ metrics["claude"].requests_success = 1
        /\ cache # <<>>

\* C27 witness: the invocation of Gemini has timed out, the one of Claude has
\* answered and query returns Claude's Response.
C27_WitnessFailover ==
    \E t \in ThreadsKw :
        /\ pc[t] = "q_exit"
        /\ Len(hist[t].trace) = 2
        /\ hist[t].trace[1].e = TimedOut
        /\ hist[t].trace[2].ok
        /\ frame[t].ret.kind = "return"
        /\ metrics["gemini"].requests_failed = 1

\* C30 (as claimed): a call of query whose list names an id outside the
\* configured providers ends in an error that is not the RuntimeError of
\* routing, and counts no failure but those of the invocations that raised.
C30_UnknownTargetFails ==
    \A t \in ThreadsKw :
        (/\ pc[t] = "q_exit"
         /\ frame[t].kwargs = {}
         /\ ~AllKnown(frame[t].providers)) =>
            /\ frame[t].ret.kind = "raise"
            /\ frame[t].ret.type # "RuntimeError"
            /\ \A p \in ProviderName :
                  metrics[p].requests_failed =
                      hist[t].pre_metrics[p].requests_failed
                          + Invocations(hist[t].trace, p, FALSE)

\* what does hold: a call ends in AttributeError or KeyError exactly when its
\* failover loop has come to an id outside the configured providers.
C30_LookupErrorWhenReached ==
    \A t \in ThreadsKw :
        (pc[t] = "q_exit" /\ frame[t].kwargs = {}) =>
            ((/\ frame[t].ret.kind = "raise"
              /\ frame[t].ret.type \in {"AttributeError", "KeyError"})
             <=> (/\ ~hist[t].hit
                  /\ frame[t].idx \in 1..Len(frame[t].providers)
                  /\ frame[t].providers[frame[t].idx] \notin ProviderName))

\* a list naming an unknown id after Gemini has been answered by Gemini
C30_UnknownNeverReached ==
    \E t \in ThreadsKw :
        /\ pc[t] = "q_exit"
        /\ frame[t].providers = <<"gemini", UnknownStr>>
        /\ frame[t].ret.kind = "return"
        /\ ~hist[t].hit

\* program points of query between a failed invocation and the raise
FailurePoints == {"q_failed", "q_failed_w", "q_error", "q_last", "q_exit"}

C36_OneSuccessfulInvocationPerFingerprint ==
    \A t \in Threads :
        /\ (/\ pc[t] \in QueryPointsAfterLookup \ {"q_exit"}
            /\ frame[t].use_cache) =>
               /\ lock.owner = t
               /\ hash(frame[t].query) \notin DOMAIN cache
        /\ JustSucceeded(t) =>
               /\ lock.owner = t
               /\ hash(frame[t].query) \in DOMAIN cache
               /\ cache[hash(frame[t].query)] = frame[t].response

\* C36 witness: a thread is about to store the Response of its successful
\* invocation while the other thread waits for the lock with its own query.
C36_Witness ==
    \E t, u \in Threads :
        /\ t # u
        /\ pc[t] = "q_put"
        /\ frame[t].use_cache
        /\ pc[u] = "q_lock"

\* C36 witness: the second of two calls is answered from the cache; one
\* provider invocation has succeeded in all.
C36_WitnessSecondHits ==
    \E t \in Threads :
        /\ pc[t] = "q_exit"
        /\ hist[t].hit
        /\ ncalls = 2
        /\ tally.returned = 1
        /\ \E p \in ProviderName :
              /\ tally.ok[p] = 1
              /\ \A q \in ProviderName \ {p} : tally.ok[q] = 0

\* C37: every call of query, health_check, clear_cache and get_metrics that a
\* thread has begun comes back to its caller, also after calls of query that
\* raised, and the lock is free whenever no thread is inside a with block.
C37_EveryCallCompletes ==
    /\ []((\A t \in Threads : pc[t] \in Unlocked) => lock.owner = None)
    /\ \A t \in Threads : (pc[t] # "idle") ~> (pc[t] = "idle")

\* C37 witness: the first call was a query that raised "All providers
\* failed"; a thread is inside the health sweep it began afterwards.
C37_Witness ==
    /\ tally.returned = 1
    /\ \E p \in ProviderName : tally.failed[p] = 1
    /\ \A p \in ProviderName : tally.ok[p] = 0
    /\ \E t \in Threads : pc[t] = "h_probe" /\ lock.owner = t

\* C38: a query that has succeeded, with or without use_cache, leaves the
\* cache as it found it but for the entry of its fingerprint, which is its own
\* Response; and a query answered from the cache returns the Response of the
\* latest successful invocation for its fingerprint.
C38_SuccessAlwaysOverwritesCache ==
    \A t \in Threads :
        pc[t] = "q_exit" =>
            LET key == hash(frame[t].query) IN
              /\ JustSucceeded(t) =>
                    /\ cache = [k \in DOMAIN hist[t].pre_cache \cup {key} |->
                                  IF k = key THEN frame[t].response
                                  ELSE hist[t].pre_cache[k]]
                    /\ tally.latest[key] = frame[t].response
              /\ (hist[t].hit /\ frame[t].ret.kind = "return") =>
                    frame[t].ret.value = tally.latest[key]

\* C38 witness: a query without use_cache has succeeded and its Response has
\* taken the place of the entry an earlier query had stored.
C38_Witness ==
    \E t \in Threads :
        /\ pc[t] = "q_exit"
        /\ ~frame[t].use_cache
        /\ JustSucceeded(t)
        /\ hash(frame[t].query) \in DOMAIN hist[t].pre_cache
        /\ cache[hash(frame[t].query)]
               # hist[t].pre_cache[hash(frame[t].query)]
        /\ cache[hash(frame[t].query)] = frame[t].response

C39_WitnessUnknown ==
    \E t \in ThreadsKw :
        /\ pc[t] = "q_exit"
        /\ hist[t].hit
        /\ frame[t].providers = <<UnknownStr>>
        /\ frame[t].ret.kind = "return"

\* C40: whatever is called, query, health_check, clear_cache, save_metrics
\* or a new router on the saved file, no provider is ever degraded; and a
\* probe that returns True makes its provider healthy, whatever it was.
C40_NeverDegraded ==
    /\ [](\A p \in ProviderName :
              metrics[p].status \in {"healthy", "unhealthy"})
    /\ [][\A t \in ThreadsKw :
              (/\ pc[t] = "h_probe"
               /\ pc'[t] = "h_for"
               /\ hist'[t].trace[Len(hist'[t].trace)].ok) =>
                  metrics'[ProviderOrder[frame[t].idx]].status = "healthy"]_vars

\* C40 witness: in a sweep the probe of a provider that an earlier sweep had
\* found unhealthy has returned True, and the provider is healthy again.
C40_Witness ==
    \E t \in ThreadsKw, p \in ProviderName :
        /\ pc[t] = "h_for"
        /\ hist[t].pre_metrics[p].status = "unhealthy"
        /\ \E i \in 1..Len(hist[t].trace) :
              hist[t].trace[i].provider = p /\ hist[t].trace[i].ok
        /\ metrics[p].status = "healthy"

\* ------------------------------------------------- claims C31, C32 (agents)
\* the status a lifecycle call requires, and the one it gives
RequiredStatus(op) ==
    CASE op = "start_agent" -> "idle"
      [] op = "pause_agent" -> "running"
      [] op = "resume_agent" -> "paused"

GivenStatus(op) ==
    CASE op = "start_agent" -> "running"
      [] op = "pause_agent" -> "paused"
      [] op = "resume_agent" -> "running"

LifecycleOps == {"start_agent", "pause_agent", "resume_agent"}

\* the statuses of the agents now
StatusNow == [a \in DOMAIN orch.agents |-> orch.agents[a].status]

\* C31: start_agent, pause_agent and resume_agent return True exactly when
\* the agent is known and has the status the call requires (IDLE, RUNNING,
\* PAUSED), and then give it RUNNING, PAUSED, RUNNING and change no other
\* agent's status; in every other case, an unknown id included, they return
\* False and every agent's status is what it was.
C31_GuardedLifecycle ==
    LET c == orch.call
        before == orch.pre.status
    IN  c.op \in LifecycleOps =>
          IF c.id \in DOMAIN before /\ before[c.id] = RequiredStatus(c.op)
          THEN /\ c.ok
               /\ StatusNow = [before EXCEPT ![c.id] = GivenStatus(c.op)]
          ELSE /\ ~c.ok
               /\ StatusNow = before

\* a paused agent has been resumed
C31_Witness ==
    /\ orch.call.op = "resume_agent"
    /\ orch.call.ok
    /\ orch.pre.status[orch.call.id] = "paused"
    /\ orch.agents[orch.call.id].status = "running"

\* a call on an agent in another status, and a call on an unknown id
C31_WitnessRefused ==
    /\ orch.call.op = "pause_agent"
    /\ ~orch.call.ok
    /\ orch.call.id \in DOMAIN orch.pre.status
    /\ orch.pre.status[orch.call.id] = "completed"

C31_WitnessUnknown ==
    /\ orch.call.op = "start_agent"
    /\ ~orch.call.ok
    /\ orch.call.id \notin DOMAIN orch.agents
    /\ DOMAIN orch.agents # {}

\* the tasks stored for an agent
TasksOf(a) == {k \in DOMAIN orch.tasks : orch.tasks[k].agent_id = a}

\* C32: a create_task that returns an id returns one no stored task has, so
\* after n such calls the orchestrator holds n tasks, and when the call
\* returns, the task_count of the agent it was given is the number of stored
\* tasks assigned to that agent.
C32_EveryTaskStored ==
    /\ Cardinality(DOMAIN orch.tasks) = orch.created
    /\ (orch.call.op = "create_task" /\ orch.call.ok) =>
          /\ orch.call.ret \notin orch.pre.task_ids
          /\ orch.agents[orch.call.id].task_count =
                Cardinality(TasksOf(orch.call.id))

\* two create_task calls have returned and one task is stored
C32_Overwritten ==
    /\ orch.created = 2
    /\ Cardinality(DOMAIN orch.tasks) = 1
    /\ \E a \in DOMAIN orch.agents : orch.agents[a].task_count = 2

\* --------------------------------------------------- claims C33, C34 (gate)
\* an evaluation has returned a score: it heads the history
Evaluated ==
    /\ gate.call.op = "evaluate_action"
    /\ gate.call.raised = None

LastScore == gate.history[1]

\* C33: for every registered action and every combination of risk factors,
\* the score evaluate_action returns has should_execute False whenever the
\* clamped confidence value is below the threshold of the action's rule: an
\* action executes only with a value at or above the threshold.
C33_ExecutesOnlyAtOrAboveThreshold ==
    Evaluated =>
        (LastScore.should_execute =>
            LastScore.confidence_value >=
                get_threshold(gate.rules[LastScore.action]))

\* a HIGH action under risk: the value is below the threshold, the
\* explanation of the score says it is paused, and should_execute is True
C33_ExecutesBelowThreshold ==
    /\ Evaluated
    /\ LastScore.base_confidence = "high"
    /\ LastScore.confidence_value = 50
    /\ get_threshold(gate.rules[LastScore.action]) = 70
    /\ LastScore.explanation = "Below threshold - PAUSED FOR REVIEW"
    /\ LastScore.should_execute

\* what C33 says holds of every action whose base confidence is not HIGH
C33_HoldsBelowHigh ==
    (Evaluated /\ LastScore.base_confidence # "high") =>
        (LastScore.should_execute <=>
            /\ LastScore.base_confidence # "critical"
            /\ LastScore.confidence_value >=
                  get_threshold(gate.rules[LastScore.action]))

\* C34: an action registered with CRITICAL base confidence never
\* auto-executes: every score evaluate_action returns for it has
\* should_execute False, whatever the custom threshold and the risk factors,
\* and so has every score kept in the history.
C34_CriticalNeverExecutes ==
    \A i \in 1..Len(gate.history) :
        gate.history[i].base_confidence = "critical" =>
            ~gate.history[i].should_execute

\* a CRITICAL action with custom threshold 0.0 has been evaluated: its value
\* 0.0 is not below the threshold
C34_Witness ==
    /\ Evaluated
    /\ LastScore.base_confidence = "critical"
    /\ gate.rules[LastScore.action].custom_threshold =
          [given |-> TRUE, value |-> 0]
    /\ LastScore.confidence_value >=
          get_threshold(gate.rules[LastScore.action])
    /\ LastScore.explanation = "Above threshold - AUTO-EXECUTE"
    /\ ~LastScore.should_execute

\* the same under risk factors
C34_WitnessRisk ==
    /\ Evaluated
    /\ LastScore.base_confidence = "critical"
    /\ DOMAIN LastScore.risk_factors # {}
    /\ ~LastScore.should_execute
====
